---- MODULE Spec2Model ----
(***************************************************************************)
(* A model of the code-editing agent: the path sandbox (sandbox.go), the   *)
(* tool executor (tools.go), the result envelope (errors.go) and the turn  *)
(* orchestrator (agent.go).                                                *)
(*                                                                         *)
(* A Go string is a sequence of one-character strings, so that the path    *)
(* functions work on the characters the code works on.  A filesystem is a  *)
(* function from absolute, cleaned paths to nodes (dir, file, link).       *)
(***************************************************************************)
EXTENDS Integers, Sequences, FiniteSets, TLC

VARIABLES
    fs,        \* the filesystem: absolute path -> node
    Root,      \* PathSandbox.Root
    tpc,       \* position of the tool executor: "idle", "returned"
    call,      \* the tool call made: a genai.FunctionCall, and what the environment did to its I/O
    pending,   \* the outcome of the call's Resolve, Nil when it made none
    result,    \* the ToolResult of the call
    pc,        \* position of Agent.Run
    history,   \* Agent.history
    allParts,  \* streamModelResponse: parts merged so far
    allCalls,  \* streamModelResponse: function calls collected so far
    firstOutput, \* streamModelResponse: no text printed yet
    calls,     \* executeToolCalls: the calls of the round
    parts,     \* executeToolCalls: the FunctionResponse parts built so far
    display,   \* what was printed to the terminal (stdout)
    runErr,    \* the error returned by Run, or "none"
    ninv,      \* model invocations so far
    nturns,    \* user inputs so far
    nfrags,    \* stream fragments received so far
    frags,     \* the fragments the current model invocation has delivered
    contents,  \* the contents the current model invocation was given
    executed,  \* the tool calls executed in the current round, with their results
    debugMode, \* Agent.debugMode, the --debug flag
    diag       \* what was written to the diagnostic stream (stderr)

fsvars == <<fs, Root, tpc, call, pending, result>>
agvars == <<pc, history, allParts, allCalls, firstOutput, calls, parts, display, runErr,
            ninv, nturns, nfrags, frags, contents, executed>>
dbgvars == <<debugMode, diag>>
vars == <<fs, Root, tpc, call, pending, result,
          pc, history, allParts, allCalls, firstOutput, calls, parts, display, runErr,
          ninv, nturns, nfrags, frags, contents, executed, debugMode, diag>>

----------------------------------------------------------------------------
(* Bounds of the model. *)

\* most path segments in a requested path
MaxSegs == 3
\* links EvalSymlinks walks before it gives up (255 in the Go library)
MaxLinksWalked == 8
\* most user inputs in a run
MaxTurns == 2
\* most model invocations in a run
MaxInvocations == 3
\* most stream fragments in a run
MaxFrags == 3
\* most calls of Resolve with the same arguments
MaxResolves == 2

----------------------------------------------------------------------------
(* Strings. *)

Separator == "/"
Dot == <<".">>
DotDot == <<".", ".">>

\* F(v), with v evaluated once
Let(v, F(_)) == CHOOSE r \in {F(x) : x \in {v}} : TRUE

Front(s) == SubSeq(s, 1, Len(s) - 1)
Last(s) == s[Len(s)]

\* strings.HasPrefix
HasPrefix(s, prefix) == Len(s) >= Len(prefix) /\ SubSeq(s, 1, Len(prefix)) = prefix

\* strings.Contains
Contains(s, sub) == \E i \in 0..(Len(s) - Len(sub)) : SubSeq(s, i + 1, i + Len(sub)) = sub

\* unicode.IsSpace, on the characters of the model
IsSpace(c) == c = " "

RECURSIVE TrimLeft(_)
TrimLeft(s) == IF s # <<>> /\ IsSpace(Head(s)) THEN TrimLeft(Tail(s)) ELSE s

RECURSIVE TrimRight(_)
TrimRight(s) == IF s # <<>> /\ IsSpace(Last(s)) THEN TrimRight(Front(s)) ELSE s

\* strings.TrimSpace
TrimSpace(s) == TrimRight(TrimLeft(s))

ToLowerChar(c) ==
    CASE c = "A" -> "a"
      [] c = "E" -> "e"
      [] c = "L" -> "l"
      [] c = "W" -> "w"
      [] OTHER -> c

\* strings.ToLower
ToLower(s) == [i \in 1..Len(s) |-> ToLowerChar(s[i])]

\* the byte order of the characters of the model (ASCII)
CharRank(c) ==
    CASE c = " " -> 32
      [] c = "*" -> 42
      [] c = "." -> 46
      [] c = "/" -> 47
      [] c = "A" -> 65
      [] c = "E" -> 69
      [] c = "L" -> 76
      [] c = "W" -> 87
      [] c = "a" -> 97
      [] c = "e" -> 101
      [] c = "l" -> 108
      [] c = "n" -> 110
      [] c = "w" -> 119
      [] c = "x" -> 120
      [] OTHER -> 127

\* s < t for Go strings (byte-wise)
RECURSIVE StrLess(_, _)
StrLess(s, t) ==
    IF t = <<>> THEN FALSE
    ELSE IF s = <<>> THEN TRUE
    ELSE IF Head(s) = Head(t) THEN StrLess(Tail(s), Tail(t))
    ELSE CharRank(Head(s)) < CharRank(Head(t))

\* sort.Strings of a set of distinct strings
RECURSIVE SortStrings(_)
SortStrings(S) ==
    Let(S, LAMBDA T :
        IF T = {} THEN <<>>
        ELSE Let(CHOOSE x \in T : \A y \in T \ {x} : StrLess(x, y), LAMBDA m :
                 <<m>> \o SortStrings(T \ {m})))

----------------------------------------------------------------------------
(* path/filepath, on Unix. *)

RECURSIVE splitFrom(_, _, _, _)
splitFrom(s, i, cur, out) ==
    IF i > Len(s) THEN Append(out, cur)
    ELSE IF s[i] = Separator THEN splitFrom(s, i + 1, <<>>, Append(out, cur))
    ELSE splitFrom(s, i + 1, Append(cur, s[i]), out)

\* the elements of a path between its separators, empty ones included
Split(s) == Let(s, LAMBDA v : splitFrom(v, 1, <<>>, <<>>))

RECURSIVE joinFrom(_, _)
joinFrom(es, i) ==
    IF i > Len(es) THEN <<>>
    ELSE IF i = Len(es) THEN es[i]
    ELSE es[i] \o <<Separator>> \o joinFrom(es, i + 1)

\* the elements joined by separators
JoinElems(es) == Let(es, LAMBDA v : joinFrom(v, 1))

\* filepath.IsAbs
IsAbs(path) == HasPrefix(path, <<Separator>>)

\* the element loop of filepath.Clean: "" and "." are dropped, ".." removes the
\* element before it, is dropped at the root and is kept at the front of a
\* relative path
RECURSIVE cleanFrom(_, _, _, _)
cleanFrom(es, i, out, rooted) ==
    IF i > Len(es) THEN out
    ELSE IF es[i] = <<>> \/ es[i] = Dot THEN cleanFrom(es, i + 1, out, rooted)
    ELSE IF es[i] = DotDot
         THEN Let(out, LAMBDA o :
                  IF o # <<>> /\ Last(o) # DotDot THEN cleanFrom(es, i + 1, Front(o), rooted)
                  ELSE IF rooted THEN cleanFrom(es, i + 1, o, rooted)
                  ELSE cleanFrom(es, i + 1, Append(o, DotDot), rooted))
         ELSE cleanFrom(es, i + 1, Append(out, es[i]), rooted)

CleanElems(es, rooted) == Let(es, LAMBDA v : cleanFrom(v, 1, <<>>, rooted))

\* filepath.Clean
Clean(path) ==
    Let(path, LAMBDA p :
        IF p = <<>> THEN Dot
        ELSE Let(CleanElems(Split(p), IsAbs(p)), LAMBDA out :
                 IF IsAbs(p) THEN <<Separator>> \o JoinElems(out)
                 ELSE IF out = <<>> THEN Dot ELSE JoinElems(out)))

\* filepath.Join of two elements
Join(a, b) ==
    IF a = <<>> /\ b = <<>> THEN <<>>
    ELSE IF a = <<>> THEN Clean(b)
    ELSE IF b = <<>> THEN Clean(a)
    ELSE Clean(a \o <<Separator>> \o b)

\* index of the last separator of path, 0 if none
RECURSIVE LastSep(_, _)
LastSep(path, i) ==
    IF i = 0 THEN 0
    ELSE IF path[i] = Separator THEN i ELSE LastSep(path, i - 1)

\* filepath.Dir
Dir(path) == Let(path, LAMBDA p : Clean(SubSeq(p, 1, LastSep(p, Len(p)))))

RECURSIVE StripTrailingSeps(_)
StripTrailingSeps(path) ==
    IF path # <<>> /\ Last(path) = Separator THEN StripTrailingSeps(Front(path)) ELSE path

\* filepath.Base
Base(path) ==
    IF path = <<>> THEN Dot
    ELSE Let(StripTrailingSeps(path), LAMBDA p :
             IF p = <<>> THEN <<Separator>> ELSE SubSeq(p, LastSep(p, Len(p)) + 1, Len(p)))

\* the names of a cleaned path below its root or start
Elems(path) == CleanElems(Split(path), IsAbs(path))

\* how many leading elements b and t share, from i on
RECURSIVE commonFrom(_, _, _)
commonFrom(b, t, i) ==
    IF i < Len(b) /\ i < Len(t) /\ b[i + 1] = t[i + 1] THEN commonFrom(b, t, i + 1) ELSE i

\* filepath.Rel: [ok, rel]
Rel(basepath, targpath) ==
    Let(<<Clean(basepath), Clean(targpath)>>, LAMBDA c :
        IF c[2] = c[1] THEN [ok |-> TRUE, rel |-> Dot]
        ELSE IF IsAbs(c[1]) # IsAbs(c[2]) THEN [ok |-> FALSE, rel |-> <<>>]
        ELSE Let(<<IF c[1] = Dot THEN <<>> ELSE Elems(c[1]),
                   IF c[2] = Dot THEN <<>> ELSE Elems(c[2])>>, LAMBDA e :
                 Let(commonFrom(e[1], e[2], 0), LAMBDA n :
                     IF n < Len(e[1]) /\ e[1][n + 1] = DotDot
                     THEN [ok |-> FALSE, rel |-> <<>>]
                     ELSE [ok |-> TRUE,
                           rel |-> JoinElems([i \in 1..(Len(e[1]) - n) |-> DotDot]
                                             \o SubSeq(e[2], n + 1, Len(e[2])))])))

----------------------------------------------------------------------------
(* The filesystem. *)

DirNode == [kind |-> "dir", target |-> <<>>, content |-> <<>>]
FileNode(c) == [kind |-> "file", target |-> <<>>, content |-> c]
LinkNode(t) == [kind |-> "link", target |-> t, content |-> <<>>]

Slash == <<"/">>

Failed == [ok |-> FALSE, path |-> <<>>]

\* the loop of filepath.EvalSymlinks (walkSymlinks): rest are the elements
\* still to walk, dest the names of the real path so far, n the links walked
RECURSIVE walkSymlinks(_, _, _, _)
walkSymlinks(f, rest, dest, n) ==
    Let(<<rest, dest>>, LAMBDA a :
        IF a[1] = <<>> THEN [ok |-> TRUE, path |-> Slash \o JoinElems(a[2])]
        ELSE IF Head(a[1]) = <<>> \/ Head(a[1]) = Dot THEN walkSymlinks(f, Tail(a[1]), a[2], n)
        ELSE IF Head(a[1]) = DotDot
             THEN walkSymlinks(f, Tail(a[1]), IF a[2] = <<>> THEN a[2] ELSE Front(a[2]), n)
             ELSE Let(Slash \o JoinElems(Append(a[2], Head(a[1]))), LAMBDA p :
                      IF p \notin DOMAIN f THEN Failed                   \* os.Lstat: ENOENT
                      ELSE IF f[p].kind # "link"
                           THEN IF f[p].kind # "dir" /\ Len(a[1]) > 1
                                THEN Failed                              \* ENOTDIR
                                ELSE walkSymlinks(f, Tail(a[1]), Append(a[2], Head(a[1])), n)
                           ELSE IF n + 1 > MaxLinksWalked THEN Failed    \* too many links
                           ELSE walkSymlinks(f, Split(f[p].target) \o Tail(a[1]),
                                             IF IsAbs(f[p].target) THEN <<>> ELSE a[2],
                                             n + 1)))

\* filepath.EvalSymlinks of an absolute path: [ok, path]
EvalSymlinks(f, path) == walkSymlinks(f, Split(path), <<>>, 0)

\* the names in directory dir (a real path)
Children(f, dir) == {Base(p) : p \in {q \in DOMAIN f : q # Slash /\ Dir(q) = dir}}

\* the metacharacter of filepath.Match that the paths of the model can have
HasMeta(path) == \E i \in 1..Len(path) : path[i] = "*"

\* filepath.Match of a name without separators: "*" matches any run of
\* characters, any other character itself
RECURSIVE matchFrom(_, _, _, _)
matchFrom(pattern, i, name, j) ==
    IF i > Len(pattern) THEN j > Len(name)
    ELSE IF pattern[i] = "*"
         THEN \E k \in j..(Len(name) + 1) : matchFrom(pattern, i + 1, name, k)
         ELSE j <= Len(name) /\ pattern[i] = name[j] /\ matchFrom(pattern, i + 1, name, j + 1)

Match(pattern, name) == matchFrom(pattern, 1, name, 1)

\* filepath.glob: the entries of dir whose name matches pattern, sorted by
\* name; none when dir cannot be opened or is no directory
glob(f, dir, pattern) ==
    Let(EvalSymlinks(f, dir), LAMBDA d :                                 \* os.Stat(dir)
        IF ~d.ok \/ f[d.path].kind # "dir" THEN <<>>
        ELSE Let(SortStrings({n \in Children(f, d.path) : Match(pattern, n)}), LAMBDA names :
                 [i \in 1..Len(names) |-> Join(dir, names[i])]))

\* filepath.Glob, the loop over the matches of the directory pattern
RECURSIVE globEach(_, _, _, _)
globEach(f, m, i, pattern) ==
    IF i > Len(m) THEN <<>>
    ELSE glob(f, m[i], pattern) \o globEach(f, m, i + 1, pattern)

\* filepath.Glob of a clean pattern that has a metacharacter: when the
\* directory part has one too, it is expanded first
RECURSIVE globWithLimit(_, _)
globWithLimit(f, pattern) ==
    Let(<<Dir(pattern), Base(pattern)>>, LAMBDA df :
        IF ~HasMeta(df[1]) THEN glob(f, df[1], df[2])
        ELSE Let(globWithLimit(f, df[1]), LAMBDA m : globEach(f, m, 1, df[2])))

\* filepath.Glob(filepath.Join(dir, "*"))
Glob(f, dir) == globWithLimit(f, Join(dir, <<"*">>))

\* os.ReadFile(path) under an I/O fault: [ok, content]
osReadFile(f, path, fault) ==
    Let(EvalSymlinks(f, path), LAMBDA r :
        IF fault # "none" \/ ~r.ok \/ f[r.path].kind # "file"
        THEN [ok |-> FALSE, content |-> <<>>]
        ELSE [ok |-> TRUE, content |-> f[r.path].content])

\* os.ReadDir(path) under an I/O fault: [ok, entries], entries sorted by name
osReadDir(f, path, fault) ==
    Let(EvalSymlinks(f, path), LAMBDA r :
        IF fault # "none" \/ ~r.ok \/ f[r.path].kind # "dir"
        THEN [ok |-> FALSE, entries |-> <<>>]
        ELSE Let(SortStrings(Children(f, r.path)), LAMBDA names :
                 [ok |-> TRUE,
                  entries |-> [i \in 1..Len(names) |->
                                 [Name |-> names[i],
                                  IsDir |-> f[Join(r.path, names[i])].kind = "dir"]]]))

\* open(path, O_WRONLY|O_CREATE|O_TRUNC): the file the kernel opens, [ok, loc].
\* The kernel follows symbolic links, the last component included: a link
\* whose target does not exist yet has the target created.
RECURSIVE openCreate(_, _, _)
openCreate(f, path, n) ==
    Let(<<EvalSymlinks(f, path), EvalSymlinks(f, Dir(path))>>, LAMBDA r :
        IF r[1].ok
        THEN IF f[r[1].path].kind = "file" THEN [ok |-> TRUE, loc |-> r[1].path]
             ELSE [ok |-> FALSE, loc |-> <<>>]                           \* EISDIR
        ELSE IF ~r[2].ok \/ f[r[2].path].kind # "dir"
             THEN [ok |-> FALSE, loc |-> <<>>]                           \* ENOENT, ENOTDIR
             ELSE Let(Join(r[2].path, Base(path)), LAMBDA loc :
                      IF loc \notin DOMAIN f THEN [ok |-> TRUE, loc |-> loc]
                      ELSE IF f[loc].kind = "link" /\ n < MaxLinksWalked
                           THEN openCreate(f, IF IsAbs(f[loc].target) THEN f[loc].target
                                              ELSE r[2].path \o Slash \o f[loc].target,
                                           n + 1)
                           ELSE [ok |-> FALSE, loc |-> <<>>]))           \* ELOOP

\* f with file loc holding content c (created or overwritten)
PutFile(f, loc, c) == [p \in DOMAIN f \cup {loc} |-> IF p = loc THEN FileNode(c) ELSE f[p]]

\* os.WriteFile(path, content, 0644) under an I/O fault: [ok, fs].  Fault
\* "open" fails the open; fault "write" fails the write after the open has
\* created or truncated the file.
osWriteFile(f, path, c, fault) ==
    Let(openCreate(f, path, 0), LAMBDA o :
        IF fault = "open" \/ ~o.ok THEN [ok |-> FALSE, fs |-> f]
        ELSE IF fault = "write" THEN [ok |-> FALSE, fs |-> PutFile(f, o.loc, <<>>)]
        ELSE [ok |-> TRUE, fs |-> PutFile(f, o.loc, c)])

----------------------------------------------------------------------------
(* sandbox.go *)

AccessReadFile == 0
AccessWriteFile == 1
AccessListDir == 2

\* the process's working directory
Cwd == <<"/", "w">>

\* fmt.Sprintf(format, args...): kept as the format and its string arguments
Sprintf(format, args) == [fmt |-> format, args |-> args]

\* a SandboxError
SandboxError(code, message, suggestions) ==
    [Code |-> code, Message |-> message, Suggestions |-> suggestions]

NoError == SandboxError("", Sprintf("", <<>>), <<>>)

\* filepath.Abs
Abs(path) == Let(path, LAMBDA p : IF IsAbs(p) THEN Clean(p) ELSE Join(Cwd, p))

\* NewPathSandbox: [ok, Root]
NewPathSandbox(f, root) ==
    Let(EvalSymlinks(f, Abs(root)), LAMBDA rootReal :
        [ok |-> rootReal.ok, Root |-> rootReal.path])

\* formatSuggestions
formatSuggestions(names) ==
    [i \in 1..(IF Len(names) > 3 THEN 3 ELSE Len(names)) |->
        Sprintf("Did you mean '%s'?", <<names[i]>>)]

\* suggestFiles, first loop: names that have baseName as case-insensitive
\* prefix, until there are 3
RECURSIVE prefixMatches(_, _, _, _)
prefixMatches(names, i, baseName, matches) ==
    IF i > Len(names) THEN matches
    ELSE IF HasPrefix(ToLower(names[i]), ToLower(baseName))
         THEN Let(Append(matches, names[i]), LAMBDA m :
                  IF Len(m) >= 3 THEN m ELSE prefixMatches(names, i + 1, baseName, m))
         ELSE prefixMatches(names, i + 1, baseName, matches)

\* suggestFiles, second loop: names that contain baseName and are not yet
\* among the matches, until there are 3
RECURSIVE substringMatches(_, _, _, _)
substringMatches(names, i, baseName, matches) ==
    Let(matches, LAMBDA ms :
        IF i > Len(names) THEN ms
        ELSE IF /\ Contains(ToLower(names[i]), ToLower(baseName))
                /\ ~\E k \in 1..Len(ms) : ms[k] = names[i]
             THEN Let(Append(ms, names[i]), LAMBDA m :
                      IF Len(m) >= 3 THEN m ELSE substringMatches(names, i + 1, baseName, m))
             ELSE substringMatches(names, i + 1, baseName, ms))

\* PathSandbox.suggestFiles
suggestFiles(f, path) ==
    Let(<<Dir(path), Base(path)>>, LAMBDA pb :
        Let(Glob(f, pb[1]), LAMBDA entries :
            Let([i \in 1..Len(entries) |-> Base(entries[i])], LAMBDA names :
                Let(prefixMatches(names, 1, pb[2], <<>>), LAMBDA m1 :
                    IF Len(m1) >= 3 THEN formatSuggestions(m1)
                    ELSE Let(substringMatches(names, 1, pb[2], m1), LAMBDA m2 :
                             IF Len(m2) > 0 THEN formatSuggestions(m2) ELSE <<>>)))))

Accept(path) == [ok |-> TRUE, path |-> path, err |-> NoError]
Reject(code, message, suggestions) ==
    [ok |-> FALSE, path |-> <<>>, err |-> SandboxError(code, message, suggestions)]

RootHint == "Use a relative path under the project root (e.g., './subdir/file.txt')"

\* step 5 left out: whatever step 4 produced is returned
rootCheckNone(root, userPath, candidateReal) == Accept(candidateReal)

\* step 5 with a rejection that suggests the name the path leads to
rootCheckNamingTarget(root, userPath, candidateReal) ==
    Let(Rel(root, candidateReal), LAMBDA rel :
        IF ~rel.ok \/ rel.rel = DotDot \/ HasPrefix(rel.rel, DotDot \o <<Separator>>)
        THEN Reject("permission_denied", Sprintf("path escapes project root: %s", <<userPath>>),
                    <<Sprintf("Did you mean '%s'?", <<Base(candidateReal)>>)>>)
        ELSE Accept(candidateReal))

\* PathSandbox.Resolve, step 5: the root check on the real path
rootCheck(root, userPath, candidateReal) ==
    Let(Rel(root, candidateReal), LAMBDA rel :
        IF ~rel.ok \/ rel.rel = DotDot \/ HasPrefix(rel.rel, DotDot \o <<Separator>>)
        THEN Reject("permission_denied", Sprintf("path escapes project root: %s", <<userPath>>),
                    <<Sprintf(RootHint, <<>>)>>)
        ELSE Accept(candidateReal))

\* step 4 for AccessWriteFile with the parent directory left unresolved
writeCandidateLexical(f, userPath, candidateAbs) ==
    Let(EvalSymlinks(f, candidateAbs), LAMBDA real :
        IF real.ok THEN Accept(real.path) ELSE Accept(candidateAbs))

\* PathSandbox.Resolve, step 4 for AccessWriteFile: [ok, path, err]
writeCandidate(f, userPath, candidateAbs) ==
    Let(EvalSymlinks(f, candidateAbs), LAMBDA real :
        IF real.ok THEN Accept(real.path)
        ELSE Let(Dir(candidateAbs), LAMBDA parentAbs :
             Let(EvalSymlinks(f, parentAbs), LAMBDA parentReal :
                 IF ~parentReal.ok
                 THEN Reject("not_found",
                             Sprintf("parent directory not found: %s", <<Dir(userPath)>>),
                             suggestFiles(f, parentAbs))
                 ELSE Accept(Join(parentReal.path, Base(candidateAbs))))))

\* step 4 for AccessReadFile and AccessListDir with the links left unresolved
readCandidateLexical(f, userPath, candidateAbs) ==
    IF ~EvalSymlinks(f, candidateAbs).ok
    THEN Reject("not_found", Sprintf("path not found: %s", <<userPath>>),
                suggestFiles(f, candidateAbs))
    ELSE Accept(candidateAbs)

\* PathSandbox.Resolve, step 4 for AccessReadFile and AccessListDir
readCandidate(f, userPath, candidateAbs) ==
    Let(EvalSymlinks(f, candidateAbs), LAMBDA real :
        IF ~real.ok
        THEN Reject("not_found", Sprintf("path not found: %s", <<userPath>>),
                    suggestFiles(f, candidateAbs))
        ELSE Accept(real.path))

\* PathSandbox.Resolve, steps 2 and 3: the absolute candidate
candidateOf(root, userPath) ==
    Let(Clean(userPath), LAMBDA clean :
        Abs(IF IsAbs(clean) THEN clean ELSE Join(root, clean)))

\* Resolve without step 1
ResolveBlankAllowed(f, root, userPath, access) ==
    Let(candidateOf(root, userPath), LAMBDA candidateAbs :
    Let(IF access = AccessWriteFile
        THEN writeCandidate(f, userPath, candidateAbs)
        ELSE readCandidate(f, userPath, candidateAbs), LAMBDA candidateReal :
        IF ~candidateReal.ok THEN candidateReal
        ELSE rootCheck(root, userPath, candidateReal.path)))

\* PathSandbox.Resolve: [ok, path, err]
Resolve(f, root, userPath, access) ==
    IF TrimSpace(userPath) = <<>>
    THEN Reject("invalid_argument", Sprintf("path cannot be empty", <<>>), <<>>)
    ELSE Let(candidateOf(root, userPath), LAMBDA candidateAbs :
         Let(IF access = AccessWriteFile
             THEN writeCandidate(f, userPath, candidateAbs)
             ELSE readCandidate(f, userPath, candidateAbs), LAMBDA candidateReal :
             IF ~candidateReal.ok THEN candidateReal
             ELSE rootCheck(root, userPath, candidateReal.path)))

----------------------------------------------------------------------------
(* errors.go: the result envelope.  A nil pointer or nil map is <<>>, a      *)
(* present one is <<v>>.                                                     *)

Nil == <<>>

\* a ToolError
ToolError(code, message, suggestions) ==
    [Code |-> code, Message |-> message, Suggestions |-> suggestions]

\* NewSuccessResult
NewSuccessResult(data) == [OK |-> TRUE, Data |-> data, Error |-> Nil]

\* NewErrorResult
NewErrorResult(code, message, suggestions) ==
    [OK |-> FALSE, Data |-> Nil, Error |-> <<ToolError(code, message, suggestions)>>]

\* the rejection converted without its suggestions
NewErrorResultWithoutSuggestions(err) == NewErrorResult(err.Code, err.Message, Nil)

\* NewErrorResultFromSandbox
NewErrorResultFromSandbox(err) == NewErrorResult(err.Code, err.Message, err.Suggestions)

\* ToolResult.AsMap: the map sent to the model
AsMap(r) ==
    [k \in {"ok"} \cup (IF r.Data # Nil THEN {"data"} ELSE {})
                  \cup (IF r.Error # Nil THEN {"error"} ELSE {}) |->
        CASE k = "ok" -> r.OK
          [] k = "data" -> r.Data[1]
          [] k = "error" -> [code |-> r.Error[1].Code,
                             message |-> r.Error[1].Message,
                             suggestions |-> r.Error[1].Suggestions]]

----------------------------------------------------------------------------
(* tools.go *)

\* a value of fc.Args: a string, or a value of another JSON type
StringValue(s) == [type |-> "string", val |-> s]
NumberValue == [type |-> "number", val |-> <<>>]

DigitChar(n) ==
    CASE n = 0 -> "0" [] n = 1 -> "1" [] n = 2 -> "2" [] n = 3 -> "3" [] n = 4 -> "4"
      [] n = 5 -> "5" [] n = 6 -> "6" [] n = 7 -> "7" [] n = 8 -> "8" [] OTHER -> "9"

\* %d of a length
RECURSIVE Itoa(_)
Itoa(n) == IF n < 10 THEN <<DigitChar(n)>> ELSE Itoa(n \div 10) \o <<DigitChar(n % 10)>>

\* an argument that is missing or no string read as the empty string
getStringArgLax(fc, key) ==
    [ok |-> TRUE,
     val |-> IF key \in DOMAIN fc.Args THEN fc.Args[key].val ELSE <<>>,
     err |-> Sprintf("", <<>>)]

\* getStringArg: [ok, val, err]
getStringArg(fc, key) ==
    IF key \notin DOMAIN fc.Args
    THEN [ok |-> FALSE, val |-> <<>>, err |-> Sprintf("missing argument: %s", <<key>>)]
    ELSE IF fc.Args[key].type # "string"
         THEN [ok |-> FALSE, val |-> <<>>,
               err |-> Sprintf("argument %s must be a string", <<key>>)]
         ELSE [ok |-> TRUE, val |-> fc.Args[key].val, err |-> Sprintf("", <<>>)]

\* what a tool returns: its ToolResult, the filesystem it leaves, and the
\* outcome of its Resolve call (Nil when it made none)
Outcome(res, f, resolved) == [result |-> res, fs |-> f, resolved |-> resolved]

\* readFile, lines 126-133: the read of the resolved path
readFileIO(f, resolvedPath, fault) ==
    Let(osReadFile(f, resolvedPath, fault), LAMBDA content :
        IF ~content.ok
        THEN NewErrorResult("io_error", Sprintf("failed to read file: %v", <<>>), Nil)
        ELSE NewSuccessResult(<<[content |-> content.content]>>))

\* readFile
readFile(f, root, fc, fault) ==
    LET path == getStringArg(fc, "path")
    IN IF ~path.ok THEN Outcome(NewErrorResult("invalid_argument", path.err, Nil), f, Nil)
       ELSE Let(Resolve(f, root, path.val, AccessReadFile), LAMBDA r :
                IF ~r.ok THEN Outcome(NewErrorResultFromSandbox(r.err), f, <<r>>)
                ELSE Outcome(readFileIO(f, r.path, fault), f, <<r>>))

\* writeFile, lines 156-163: the write of the resolved path, [result, fs]
writeFileIO(f, resolvedPath, path, content, fault) ==
    Let(osWriteFile(f, resolvedPath, content, fault), LAMBDA w :
        IF ~w.ok
        THEN [result |-> NewErrorResult("io_error", Sprintf("failed to write file: %v", <<>>), Nil),
              fs |-> w.fs]
        ELSE [result |-> NewSuccessResult(
                             <<[message |-> Sprintf("wrote %d bytes to %s",
                                                    <<Itoa(Len(content)), path>>)]>>),
              fs |-> w.fs])

\* writeFile
writeFile(f, root, fc, fault) ==
    LET path == getStringArg(fc, "path")
        content == getStringArg(fc, "content")
    IN IF ~path.ok THEN Outcome(NewErrorResult("invalid_argument", path.err, Nil), f, Nil)
       ELSE IF ~content.ok
            THEN Outcome(NewErrorResult("invalid_argument", content.err, Nil), f, Nil)
       ELSE Let(Resolve(f, root, path.val, AccessWriteFile), LAMBDA r :
                IF ~r.ok THEN Outcome(NewErrorResultFromSandbox(r.err), f, <<r>>)
                ELSE Let(writeFileIO(f, r.path, path.val, content.val, fault), LAMBDA w :
                         Outcome(w.result, w.fs, <<r>>)))

\* listFiles, lines 181-200: the listing of the resolved path
listFilesIO(f, resolvedPath, fault) ==
    Let(osReadDir(f, resolvedPath, fault), LAMBDA entries :
        IF ~entries.ok
        THEN NewErrorResult("io_error", Sprintf("failed to list directory: %v", <<>>), Nil)
        ELSE NewSuccessResult(
                 <<[files |-> SortStrings({IF e.IsDir THEN e.Name \o <<"/">> ELSE e.Name :
                                             e \in {entries.entries[i] :
                                                       i \in 1..Len(entries.entries)}})]>>))

\* listFiles that creates the directory it does not find
listFilesMkdir(f, root, fc, fault) ==
    LET path == getStringArg(fc, "path")
    IN IF ~path.ok THEN Outcome(NewErrorResult("invalid_argument", path.err, Nil), f, Nil)
       ELSE Let(Resolve(f, root, path.val, AccessListDir), LAMBDA r :
                IF ~r.ok
                THEN Outcome(NewErrorResultFromSandbox(r.err),
                             IF r.err.Code = "not_found"
                             THEN [q \in DOMAIN f \cup {candidateOf(root, path.val)} |->
                                      IF q \in DOMAIN f THEN f[q] ELSE DirNode]
                             ELSE f,
                             <<r>>)
                ELSE Outcome(listFilesIO(f, r.path, fault), f, <<r>>))

\* listFiles
listFiles(f, root, fc, fault) ==
    LET path == getStringArg(fc, "path")
    IN IF ~path.ok THEN Outcome(NewErrorResult("invalid_argument", path.err, Nil), f, Nil)
       ELSE Let(Resolve(f, root, path.val, AccessListDir), LAMBDA r :
                IF ~r.ok THEN Outcome(NewErrorResultFromSandbox(r.err), f, <<r>>)
                ELSE Outcome(listFilesIO(f, r.path, fault), f, <<r>>))

\* the JSON object the weather service answers with
WeatherPayload == [current_weather |-> <<"x">>]

\* getWeather: net is what the network does: "network" (http.Get fails),
\* "parse" (the body is no JSON value for a map), "null" (the body is the JSON
\* null, which decodes to a nil map without error), "none" (a JSON object)
getWeather(f, fc, net) ==
    LET location == getStringArg(fc, "location")
    IN IF ~location.ok
       THEN Outcome(NewErrorResult("invalid_argument", location.err, Nil), f, Nil)
       ELSE IF net = "network"
            THEN Outcome(NewErrorResult("network_error",
                                        Sprintf("failed to fetch weather: %v", <<>>), Nil), f, Nil)
       ELSE IF net = "parse"
            THEN Outcome(NewErrorResult("parse_error",
                                        Sprintf("failed to parse weather response: %v", <<>>), Nil),
                         f, Nil)
       ELSE IF net = "null" THEN Outcome(NewSuccessResult(Nil), f, Nil)
       ELSE Outcome(NewSuccessResult(<<WeatherPayload>>), f, Nil)

\* executeTool: env is what the environment does to the tool's I/O
executeTool(f, root, fc, env) ==
    CASE fc.Name = "read_file" -> readFile(f, root, fc, env)
      [] fc.Name = "write_file" -> writeFile(f, root, fc, env)
      [] fc.Name = "list_files" -> listFiles(f, root, fc, env)
      [] fc.Name = "get_weather" -> getWeather(f, fc, env)
      [] OTHER -> Outcome(NewErrorResult("invalid_argument",
                                         Sprintf("unknown tool: %s", <<fc.Name>>), Nil), f, Nil)

\* executeTool, lines 85-87 and 104-106: what a call writes to stderr
executeToolDebug(dbg, fc, res) ==
    IF dbg
    THEN <<Sprintf("[DEBUG] Tool call: %s with args: %v\n", <<fc.Name, fc.Args>>),
           Sprintf("[DEBUG] Tool response: %v\n", <<AsMap(res)>>)>>
    ELSE <<>>

----------------------------------------------------------------------------
(* The filesystems and requests of the model.  The sandbox root is /w; /e is *)
(* a directory outside it.  /w/l is the entry that varies: absent, a         *)
(* directory, or a symbolic link.  /e/l, when present, is a link from        *)
(* outside the root back into it.                                            *)

W == <<"/", "w">>
E == <<"/", "e">>
WA == <<"/", "w", "/", "a">>
WL == <<"/", "w", "/", "l">>
WLA == <<"/", "w", "/", "l", "/", "a">>
EA == <<"/", "e", "/", "a">>
EL == <<"/", "e", "/", "l">>
EW == <<"/", "e", "/", "w">>

Skeleton ==
    [p \in {Slash, W, E, WA, EA} |->
        CASE p = WA -> FileNode(<<"a">>)
          [] p = EA -> FileNode(<<"s">>)
          [] OTHER -> DirNode]

\* f with node nd at path p
With(f, p, nd) == [q \in DOMAIN f \cup {p} |-> IF q = p THEN nd ELSE f[q]]

\* what /w/l links to, when it is a link
LinkTargets == {E, EA, EW, <<"a">>, <<"l">>, DotDot}

InsideVariants ==
    {Skeleton, With(With(Skeleton, WL, DirNode), WLA, FileNode(<<"a">>))}
        \cup {With(Skeleton, WL, LinkNode(t)) : t \in LinkTargets}

InitFS == InsideVariants \cup {With(f, EL, LinkNode(W)) : f \in InsideVariants}

\* the --root arguments
RootArgs == {Dot, EL}

SegChoices == {DotDot, <<"w">>, <<"e">>, <<"a">>, <<"l">>}

SegSeqs == UNION {[1..k -> SegChoices] : k \in 1..MaxSegs}

RelPaths == {JoinElems(es) : es \in SegSeqs}

\* requested paths: relative and absolute ones of up to MaxSegs segments, and
\* some with empty segments, "." segments, white space, and a name in upper case
UserPaths ==
    RelPaths \cup {Slash \o p : p \in RelPaths}
        \cup {<<>>, <<" ">>, <<" ", " ">>, <<" ", "a">>, Dot, Slash,
              <<".", "/", "a">>, <<"l", "/", "/", "a">>, <<"a", "/">>,
              <<".", ".", "/", "E">>}

\* written contents
Contents == {<<"x">>}

NoArgs == <<>>

PathValues == {StringValue(p) : p \in UserPaths} \cup {NumberValue}
ContentValues == {StringValue(c) : c \in Contents} \cup {NumberValue}

ReadCalls ==
    {[Name |-> "read_file", Args |-> a] : a \in {NoArgs} \cup {[path |-> v] : v \in PathValues}}
ListCalls ==
    {[Name |-> "list_files", Args |-> a] : a \in {NoArgs} \cup {[path |-> v] : v \in PathValues}}
WriteCalls ==
    {[Name |-> "write_file", Args |-> a] :
        a \in {NoArgs, [path |-> StringValue(<<"a">>)], [path |-> NumberValue]}
                 \cup {[content |-> c] : c \in ContentValues}
                 \cup {[path |-> StringValue(<<"a">>), content |-> NumberValue]}
                 \cup {[path |-> v, content |-> StringValue(c)] :
                          v \in PathValues, c \in Contents}}
WeatherCalls ==
    {[Name |-> "get_weather", Args |-> a] :
        a \in {NoArgs, [location |-> NumberValue], [location |-> StringValue(<<"x">>)]}}
UnknownCalls == {[Name |-> "rm", Args |-> [path |-> StringValue(<<"a">>)]]}

\* what the environment can do to a tool's I/O
Faults == {"none", "open", "write"}
NetOutcomes == {"none", "null", "network", "parse"}

----------------------------------------------------------------------------
(* The tool executor on its own: executeTool applied to every request of the *)
(* model on every filesystem of the model.                                   *)

NoCall == [fc |-> [Name |-> "", Args |-> NoArgs], env |-> "none"]
NoResult == [OK |-> FALSE, Data |-> Nil, Error |-> Nil]

AgentInit ==
    /\ pc = "Start"
    /\ history = <<>>
    /\ allParts = <<>>
    /\ allCalls = <<>>
    /\ firstOutput = TRUE
    /\ calls = <<>>
    /\ parts = <<>>
    /\ display = <<>>
    /\ runErr = "none"
    /\ ninv = 0
    /\ nturns = 0
    /\ nfrags = 0
    /\ frags = <<>>
    /\ contents = <<>>
    /\ executed = <<>>

\* main, lines 296-298: what the start of the program writes to stderr
mainDebug(dbg, root) ==
    IF dbg THEN <<Sprintf("[DEBUG] Project root: %s\n", <<root>>)>> ELSE <<>>

\* the program was started without --debug
DebugOff == debugMode = FALSE /\ diag = mainDebug(FALSE, Root)

ToolsIdle ==
    /\ tpc = "idle"
    /\ call = NoCall
    /\ pending = Nil
    /\ result = NoResult

InitTools ==
    /\ fs \in InitFS
    /\ \E arg \in RootArgs :
          /\ NewPathSandbox(fs, arg).ok
          /\ Root = NewPathSandbox(fs, arg).Root
    /\ ToolsIdle
    /\ AgentInit
    /\ DebugOff

\* the tool reached its I/O: its arguments were valid and, for a filesystem
\* tool, Resolve accepted
ReachedIO(fc, o) ==
    IF fc.Name = "get_weather" THEN getStringArg(fc, "location").ok
    ELSE o.resolved # Nil /\ o.resolved[1].ok

\* a call of executeTool; what the environment does (env) matters only to a
\* call that reaches its I/O.  For get_weather env is what the network does.
Execute(fc, envs) ==
    /\ tpc = "idle"
    /\ \E quiet \in {executeTool(fs, Root, fc, "none")} :
         \E env \in envs :
             /\ env = "none" \/ ReachedIO(fc, quiet)
             /\ \E o \in {IF env = "none" THEN quiet ELSE executeTool(fs, Root, fc, env)} :
                   /\ fs' = o.fs
                   /\ pending' = o.resolved
                   /\ result' = o.result
                   /\ call' = [fc |-> fc, env |-> env]
                   /\ diag' = diag \o executeToolDebug(debugMode, fc, o.result)
    /\ tpc' = "returned"
    /\ UNCHANGED <<Root, agvars, debugMode>>

ReadFile == \E fc \in ReadCalls : Execute(fc, {"none", "open"})

WriteFile == \E fc \in WriteCalls : Execute(fc, Faults)

ListFiles == \E fc \in ListCalls : Execute(fc, {"none", "open"})

GetWeather == \E fc \in WeatherCalls : Execute(fc, NetOutcomes)

UnknownTool == \E fc \in UnknownCalls : Execute(fc, {"none"})

NextTools == ReadFile \/ WriteFile \/ ListFiles \/ GetWeather \/ UnknownTool

SpecTools == InitTools /\ [][NextTools]_vars

----------------------------------------------------------------------------
(* agent.go: the turn orchestrator.  A genai.Part is a record with its Text, *)
(* its FunctionCall and its FunctionResponse (Nil or a one-element tuple);   *)
(* a genai.Content has a Role and Parts.  A response of the stream is Nil,   *)
(* or a one-element tuple with the Content of its first candidate: NoContent *)
(* when it has no candidate, NilContent when the candidate's Content is nil. *)

TextPart(t) == [Text |-> t, FunctionCall |-> Nil, FunctionResponse |-> Nil]
CallPart(t, fc) == [Text |-> t, FunctionCall |-> <<fc>>, FunctionResponse |-> Nil]

Content(role, ps) == [Role |-> role, Parts |-> ps]

\* Run, lines 108-113: the history entry of a user input
userContent(userInput) == Content("user", <<TextPart(userInput)>>)

\* the merged entry of an invocation entered under the user's role
modelContentAsUser(ps) == Content("user", ps)

\* streamModelResponse, lines 201-204: the merged entry of an invocation
modelContent(ps) == Content("model", ps)

\* the results of a round entered under the model's role
toolResponseAsModel(toolResponseParts) == Content("model", toolResponseParts)

\* processStreamWithTools, lines 147-150: the entry with the results of a round
toolResponseContent(toolResponseParts) == Content("user", toolResponseParts)

\* executeToolCalls, lines 218-223: the part with the result of one call
FunctionResponsePart(fc, res) ==
    [Text |-> "", FunctionCall |-> Nil,
     FunctionResponse |-> <<[Name |-> fc.Name, Response |-> AsMap(res)]>>]

Banner == "Chat with gemini-2.0-flash (use ctrl-c to exit)\n"
Prompt == "You: "
GeminiPrefix == "Gemini: "
Newline == "\n"
Arrow == "-> "

\* the marker of a tool call, with the arguments of the call
toolMarkerWithArgs(fc) == <<Arrow, fc.Name, " with args", Newline>>

\* executeToolCalls, line 214: the marker of a tool call
toolMarker(fc) == <<Arrow, fc.Name, Newline>>

\* streamModelResponse, lines 178-184: what a part prints
printText(out, first, part) ==
    IF part.Text # ""
    THEN out \o (IF first THEN <<GeminiPrefix>> ELSE <<>>) \o <<part.Text>>
    ELSE out

\* only the first call of an invocation collected
collectFirstCall(cs, part) ==
    IF part.FunctionCall # Nil /\ cs = <<>> THEN Append(cs, part.FunctionCall[1]) ELSE cs

\* streamModelResponse, lines 187-189: the calls collected after a part
collectCall(cs, part) ==
    IF part.FunctionCall # Nil THEN Append(cs, part.FunctionCall[1]) ELSE cs

\* the part put in front of the parts kept
prependPart(ps, part) == <<part>> \o ps

\* streamModelResponse, line 192: the parts kept after a part
appendPart(ps, part) == Append(ps, part)

\* streamModelResponse, lines 176-193: the loop over the parts of a response
RECURSIVE handleParts(_, _, _)
handleParts(ps, i, st) ==
    Let(st, LAMBDA t :
        IF i > Len(ps) THEN t
        ELSE handleParts(ps, i + 1,
                         [display |-> printText(t.display, t.firstOutput, ps[i]),
                          firstOutput |-> t.firstOutput /\ ps[i].Text = "",
                          allCalls |-> collectCall(t.allCalls, ps[i]),
                          allParts |-> appendPart(t.allParts, ps[i])]))

----------------------------------------------------------------------------
(* The requests and responses of the orchestrator's model.                   *)

AgentFS == Skeleton

UserInputs == {"", "hi"}

ReadA == [Name |-> "read_file", Args |-> [path |-> StringValue(<<"a">>)]]
WriteA ==
    [Name |-> "write_file",
     Args |-> [path |-> StringValue(<<"a">>), content |-> StringValue(<<"x">>)]]

\* calls that fail: an unknown tool, a path outside Root, a missing argument,
\* and a read of a directory
RmA == [Name |-> "rm", Args |-> [path |-> StringValue(<<"a">>)]]
ReadOutside ==
    [Name |-> "read_file", Args |-> [path |-> StringValue(<<".", ".", "/", "e", "/", "a">>)]]
WriteNoContent == [Name |-> "write_file", Args |-> [path |-> StringValue(<<"a">>)]]
ReadDirectory == [Name |-> "read_file", Args |-> [path |-> StringValue(Dot)]]

NilResponse == Nil
NoContent == <<[candidates |-> 0, content |-> Nil]>>
NilContent == <<[candidates |-> 1, content |-> Nil]>>
Response(ps) == <<[candidates |-> 1, content |-> <<modelContent(ps)>>]>>

\* the responses a stream can deliver
Responses ==
    {NilResponse, NoContent, Response(<<>>),
     Response(<<TextPart("a")>>),
     Response(<<TextPart("b"), TextPart("")>>),
     Response(<<CallPart("", ReadA)>>),
     Response(<<CallPart("c", WriteA), CallPart("", ReadA)>>),
     Response(<<CallPart("", RmA), CallPart("", ReadOutside),
                CallPart("", WriteNoContent), CallPart("", ReadDirectory)>>)}

\* the response carries content
Carries(resp) == resp # Nil /\ resp[1].candidates > 0

\* the response asks for a tool call
AsksCall(resp) ==
    /\ Carries(resp)
    /\ resp[1].content # Nil
    /\ \E i \in 1..Len(resp[1].content[1].Parts) :
          resp[1].content[1].Parts[i].FunctionCall # Nil

----------------------------------------------------------------------------
(* The orchestrator: Run, processStreamWithTools, streamModelResponse and    *)
(* executeToolCalls.                                                         *)

Init ==
    /\ fs = AgentFS
    /\ Root = NewPathSandbox(AgentFS, Dot).Root
    /\ ToolsIdle
    /\ AgentInit
    /\ DebugOff

\* streamModelResponse, lines 161-165: a model invocation begins
BeginStream ==
    /\ allParts' = <<>>
    /\ allCalls' = <<>>
    /\ firstOutput' = TRUE
    /\ frags' = <<>>
    /\ contents' = history'
    /\ ninv' = ninv + 1

\* Run, lines 98-101: the banner and the first prompt
RunStart ==
    /\ pc = "Start"
    /\ display' = display \o <<Banner, Prompt>>
    /\ pc' = "AwaitingInput"
    /\ UNCHANGED <<fsvars, dbgvars, history, allParts, allCalls, firstOutput, calls, parts, runErr,
                   ninv, nturns, nfrags, frags, contents, executed>>

\* a user input arrives and the history starts again with it
GetUserMessageFresh ==
    /\ pc = "AwaitingInput"
    /\ nturns < MaxTurns
    /\ ninv < MaxInvocations
    /\ \E userInput \in UserInputs :
          history' = <<userContent(userInput)>>
    /\ nturns' = nturns + 1
    /\ BeginStream
    /\ pc' = "Streaming"
    /\ UNCHANGED <<fsvars, dbgvars, calls, parts, display, runErr, nfrags, executed>>

\* Run, lines 102-117: a user input arrives and the model is invoked
GetUserMessage ==
    /\ pc = "AwaitingInput"
    /\ nturns < MaxTurns
    /\ ninv < MaxInvocations
    /\ \E userInput \in UserInputs :
          history' = Append(history, userContent(userInput))
    /\ nturns' = nturns + 1
    /\ BeginStream
    /\ pc' = "Streaming"
    /\ UNCHANGED <<fsvars, dbgvars, calls, parts, display, runErr, nfrags, executed>>

\* the input ends and its end is taken as an empty input
EndOfInputAsMessage ==
    /\ pc = "AwaitingInput"
    /\ history' = Append(history, userContent(""))
    /\ BeginStream
    /\ pc' = "Done"
    /\ UNCHANGED <<fsvars, dbgvars, calls, parts, display, runErr, nturns, nfrags, executed>>

\* Run, lines 102-105 and 122: the input ends
EndOfInput ==
    /\ pc = "AwaitingInput"
    /\ pc' = "Done"
    /\ UNCHANGED <<fsvars, dbgvars, history, allParts, allCalls, firstOutput, calls, parts, display,
                   runErr, ninv, nturns, nfrags, frags, contents, executed>>

\* streamModelResponse, lines 167-193: the stream delivers a response
StreamFragment ==
    /\ pc = "Streaming"
    /\ nfrags < MaxFrags
    /\ \E resp \in Responses :
          /\ AsksCall(resp) => ninv < MaxInvocations
          /\ frags' = Append(frags, resp)
          /\ IF ~Carries(resp)
             THEN UNCHANGED <<allParts, allCalls, firstOutput, display>>
             ELSE \E st \in {handleParts(resp[1].content[1].Parts, 1,
                                         [display |-> display, firstOutput |-> firstOutput,
                                          allCalls |-> allCalls, allParts |-> allParts])} :
                     /\ allParts' = st.allParts
                     /\ allCalls' = st.allCalls
                     /\ firstOutput' = st.firstOutput
                     /\ display' = st.display
    /\ nfrags' = nfrags + 1
    /\ UNCHANGED <<fsvars, dbgvars, pc, history, calls, parts, runErr, ninv, nturns, contents,
                   executed>>

\* streamModelResponse, line 176, on a candidate whose Content is nil: the
\* nil pointer is dereferenced and the program panics
StreamPanic ==
    /\ pc = "Streaming"
    /\ nfrags < MaxFrags
    /\ frags' = Append(frags, NilContent)
    /\ nfrags' = nfrags + 1
    /\ pc' = "Panicked"
    /\ UNCHANGED <<fsvars, dbgvars, history, allParts, allCalls, firstOutput, calls, parts, display,
                   runErr, ninv, nturns, contents, executed>>

\* the stream fails and what was merged so far is entered in the history
StreamErrorCommits ==
    /\ pc = "Streaming"
    /\ history' = Append(history, modelContent(allParts))
    /\ runErr' = "stream error"
    /\ pc' = "Failed"
    /\ UNCHANGED <<fsvars, dbgvars, allParts, allCalls, firstOutput, calls, parts, display,
                   ninv, nturns, nfrags, frags, contents, executed>>

\* streamModelResponse, lines 168-170, processStreamWithTools, lines 131-133,
\* and Run, lines 117-119: the stream fails and Run returns the error
StreamError ==
    /\ pc = "Streaming"
    /\ runErr' = "stream error"
    /\ pc' = "Failed"
    /\ UNCHANGED <<fsvars, dbgvars, history, allParts, allCalls, firstOutput, calls, parts, display,
                   ninv, nturns, nfrags, frags, contents, executed>>

\* what the end of a stream prints: lines 196-198, and line 101 when the turn
\* is over
endDisplay(turnOver) ==
    display \o (IF firstOutput THEN <<>> ELSE <<Newline>>)
            \o (IF turnOver THEN <<Prompt>> ELSE <<>>)

\* the stream ends and the turn is over, calls collected or not
EndTurnAlways ==
    /\ pc = "Streaming"
    /\ history' = Append(history, modelContent(allParts))
    /\ display' = endDisplay(TRUE)
    /\ pc' = "AwaitingInput"
    /\ UNCHANGED <<fsvars, dbgvars, allParts, allCalls, firstOutput, calls, parts, runErr,
                   ninv, nturns, nfrags, frags, contents, executed>>

\* streamModelResponse, lines 196-206, and processStreamWithTools, lines
\* 136-141: the stream ends with no call collected, and the turn is over
EndTurn ==
    /\ pc = "Streaming"
    /\ allCalls = <<>>
    /\ history' = Append(history, modelContent(allParts))
    /\ display' = endDisplay(TRUE)
    /\ pc' = "AwaitingInput"
    /\ UNCHANGED <<fsvars, dbgvars, allParts, allCalls, firstOutput, calls, parts, runErr,
                   ninv, nturns, nfrags, frags, contents, executed>>

\* the stream ends with calls collected and the tools start before the merged
\* entry is in the history
BeginToolsUnmerged ==
    /\ pc = "Streaming"
    /\ allCalls # <<>>
    /\ display' = endDisplay(FALSE)
    /\ calls' = allCalls
    /\ parts' = <<>>
    /\ executed' = <<>>
    /\ pc' = "ExecutingTools"
    /\ UNCHANGED <<fsvars, dbgvars, history, allParts, allCalls, firstOutput, runErr, ninv, nturns,
                   nfrags, frags, contents>>

\* streamModelResponse, lines 196-206, processStreamWithTools, lines 136-144,
\* and executeToolCalls, line 211: the stream ends with calls collected
BeginTools ==
    /\ pc = "Streaming"
    /\ allCalls # <<>>
    /\ history' = Append(history, modelContent(allParts))
    /\ display' = endDisplay(FALSE)
    /\ calls' = allCalls
    /\ parts' = <<>>
    /\ executed' = <<>>
    /\ pc' = "ExecutingTools"
    /\ UNCHANGED <<fsvars, dbgvars, allParts, allCalls, firstOutput, runErr, ninv, nturns, nfrags, frags,
                   contents>>

\* the next call of the round is executed, and a failed call ends Run
ExecuteToolCallFatal ==
    /\ pc = "ExecutingTools"
    /\ \E o \in {executeTool(fs, Root, calls[Len(parts) + 1], "none")} :
          /\ fs' = o.fs
          /\ executed' = Append(executed, [fc |-> calls[Len(parts) + 1], result |-> o.result])
          /\ display' = display \o toolMarker(calls[Len(parts) + 1])
          /\ diag' = diag \o executeToolDebug(debugMode, calls[Len(parts) + 1], o.result)
          /\ \E toolResponseParts \in
                   {Append(parts, FunctionResponsePart(calls[Len(parts) + 1], o.result))} :
                /\ parts' = toolResponseParts
                /\ IF ~o.result.OK
                   THEN /\ pc' = "Failed"
                        /\ UNCHANGED <<history, allParts, allCalls, firstOutput, frags, contents, ninv>>
                   ELSE IF Len(toolResponseParts) < Len(calls)
                   THEN UNCHANGED <<pc, history, allParts, allCalls, firstOutput, frags, contents, ninv>>
                   ELSE /\ history' = Append(history, toolResponseContent(toolResponseParts))
                        /\ BeginStream
                        /\ pc' = "Streaming"
    /\ UNCHANGED <<Root, tpc, call, pending, result, calls, runErr, nturns, nfrags, debugMode>>

\* executeToolCalls, lines 213-224: the next call of the round is executed
\* and, after the last one (processStreamWithTools, lines 147-151, and
\* streamModelResponse, lines 161-165), the results are appended to the
\* history and the model is invoked again
ExecuteToolCall ==
    /\ pc = "ExecutingTools"
    /\ \E o \in {executeTool(fs, Root, calls[Len(parts) + 1], "none")} :
          /\ fs' = o.fs
          /\ executed' = Append(executed, [fc |-> calls[Len(parts) + 1], result |-> o.result])
          /\ display' = display \o toolMarker(calls[Len(parts) + 1])
          /\ diag' = diag \o executeToolDebug(debugMode, calls[Len(parts) + 1], o.result)
          /\ \E toolResponseParts \in
                   {Append(parts, FunctionResponsePart(calls[Len(parts) + 1], o.result))} :
                /\ parts' = toolResponseParts
                /\ IF Len(toolResponseParts) < Len(calls)
                   THEN UNCHANGED <<pc, history, allParts, allCalls, firstOutput, frags, contents, ninv>>
                   ELSE /\ history' = Append(history, toolResponseContent(toolResponseParts))
                        /\ BeginStream
                        /\ pc' = "Streaming"
    /\ UNCHANGED <<Root, tpc, call, pending, result, calls, runErr, nturns, nfrags, debugMode>>

Next ==
    \/ RunStart
    \/ GetUserMessage
    \/ EndOfInput
    \/ StreamFragment
    \/ StreamPanic
    \/ StreamError
    \/ EndTurn
    \/ BeginTools
    \/ ExecuteToolCall

Spec == Init /\ [][Next]_vars

----------------------------------------------------------------------------
(* Properties of the resolver and of the filesystem tools, under SpecTools.  *)
(* In an action formula fs is the filesystem the call found, and the primed  *)
(* variables are what the call returned and left.                            *)

\* path p is root or lies beneath it (both absolute and clean)
Within(root, p) ==
    p = root \/ HasPrefix(p, IF root = Slash THEN Slash ELSE root \o Slash)

\* the location a path denotes in f: every symbolic link on the way followed,
\* the names that do not exist yet taken as written
RECURSIVE locate(_, _, _, _)
locate(f, rest, dest, n) ==
    Let(<<rest, dest>>, LAMBDA a :
        IF a[1] = <<>> THEN [ok |-> TRUE, path |-> Slash \o JoinElems(a[2])]
        ELSE IF Head(a[1]) = <<>> \/ Head(a[1]) = Dot THEN locate(f, Tail(a[1]), a[2], n)
        ELSE IF Head(a[1]) = DotDot
             THEN locate(f, Tail(a[1]), IF a[2] = <<>> THEN a[2] ELSE Front(a[2]), n)
             ELSE Let(Slash \o JoinElems(Append(a[2], Head(a[1]))), LAMBDA p :
                      IF p \notin DOMAIN f \/ f[p].kind # "link"
                      THEN locate(f, Tail(a[1]), Append(a[2], Head(a[1])), n)
                      ELSE IF n + 1 > MaxLinksWalked THEN Failed
                      ELSE locate(f, Split(f[p].target) \o Tail(a[1]),
                                  IF IsAbs(f[p].target) THEN <<>> ELSE a[2], n + 1)))

Locate(f, path) == locate(f, Split(path), <<>>, 0)

\* the location of path is known and lies within root
LocatedInside(f, root, path) ==
    Let(Locate(f, path), LAMBDA t : t.ok /\ Within(root, t.path))

\* the location of path is known and lies outside root
LocatedOutside(f, root, path) ==
    Let(Locate(f, path), LAMBDA t : t.ok /\ ~Within(root, t.path))

\* the first k names of the clean absolute path p, as a path
Upto(p, k) == Slash \o JoinElems(SubSeq(Elems(p), 1, k))

\* no name on the clean absolute path p, the last one included, is a symbolic
\* link of f
LinkFree(f, p) ==
    \A k \in 1..Len(Elems(p)) :
        Let(Upto(p, k), LAMBDA q : q \in DOMAIN f => f[q].kind # "link")

\* the clean absolute path p is, or passes through, a symbolic link of f that
\* lies inside root and whose target, the whole chain followed, lies outside
ThroughOutsideLink(f, root, p) ==
    \E k \in 1..Len(Elems(p)) :
        Let(Upto(p, k), LAMBDA q :
            /\ q \in DOMAIN f
            /\ f[q].kind = "link"
            /\ Within(root, q)
            /\ LinkFree(f, Dir(q))
            /\ LocatedOutside(f, root, q))

\* userPath has a ".." segment
HasDotDot(path) == \E i \in 1..Len(Split(path)) : Split(path)[i] = DotDot

\* executeTool has returned from a call that reached Resolve
Resolved == tpc = "returned" /\ pending # Nil

\* the path that call asked for, and the candidate Resolve formed from it
userPath == call.fc.Args.path.val
candidateAbs == candidateOf(Root, userPath)

RejectionCodes == {"not_found", "permission_denied"}

Rejected == ~pending[1].ok /\ pending[1].err.Code \in RejectionCodes

\* C1: whenever Resolve succeeds, for any requested path and any access kind
\* on any filesystem, the path it returns is Root or lies beneath Root.
C1_ResolveWithinRoot ==
    (Resolved /\ pending[1].ok) => Within(Root, pending[1].path)

\* Resolve accepted an absolute path that starts outside Root and comes back
\* into it through a link
C1_AcceptedThroughBackLink ==
    /\ Resolved
    /\ pending[1].ok
    /\ userPath = EL \o Slash \o <<"a">>
    /\ pending[1].path = WA

\* C2: a requested path with ".." segments that leaves Root is rejected with
\* permission_denied, for every access kind, whether or not what it names
\* outside Root exists.
C2_DotDotEscapeDenied ==
    [][(Resolved' /\ HasDotDot(userPath') /\ LocatedOutside(fs, Root, candidateAbs'))
          => (~pending'[1].ok /\ pending'[1].err.Code = "permission_denied")]_vars

\* C3: a path Resolve returns has no symbolic link among its components, the
\* last one included, in the filesystem Resolve looked at.
C3_ResolvedPathLinkFree ==
    [][(Resolved' /\ pending'[1].ok) => LinkFree(fs, pending'[1].path)]_vars

\* C4: no call of read_file, write_file or list_files creates or changes
\* anything located outside Root.
C4_OutsideRootUntouched ==
    [][\A p \in DOMAIN fs \cup DOMAIN fs' :
          ~Within(Root, p) => (p \in DOMAIN fs /\ p \in DOMAIN fs' /\ fs'[p] = fs[p])]_vars

\* a read or a listing (these leave the filesystem as it is)
ReadOrList == call.fc.Name \in {"read_file", "list_files"}

WriteBelowOutsideLink ==
    /\ Resolved'
    /\ call'.fc.Name = "write_file"
    /\ ~EvalSymlinks(fs, candidateAbs').ok
    /\ ThroughOutsideLink(fs, Root, Dir(candidateAbs'))

C7_AbsolutePathContained ==
    [][(Resolved' /\ IsAbs(userPath'))
          => /\ (~Within(Root, Clean(userPath')) /\ LocatedOutside(fs, Root, userPath'))
                   => (/\ ~result'.OK
                       /\ result'.Error # Nil
                       /\ result'.Error[1].Code \in RejectionCodes)
             /\ (EvalSymlinks(fs, userPath').ok /\ LocatedInside(fs, Root, userPath'))
                   => (pending'[1].ok /\ pending'[1].path = EvalSymlinks(fs, userPath').path)]_vars

----------------------------------------------------------------------------
(* Properties of the orchestrator, under Spec.                               *)

\* the parts of the responses rs that carry content, in the order of arrival
RECURSIVE partsFrom(_, _)
partsFrom(rs, i) ==
    IF i > Len(rs) THEN <<>>
    ELSE (IF Carries(rs[i]) THEN rs[i][1].content[1].Parts ELSE <<>>) \o partsFrom(rs, i + 1)

\* the function calls among the parts ps, in order
RECURSIVE callsFrom(_, _)
callsFrom(ps, i) ==
    IF i > Len(ps) THEN <<>>
    ELSE (IF ps[i].FunctionCall # Nil THEN ps[i].FunctionCall ELSE <<>>) \o callsFrom(ps, i + 1)

CallsOf(entry) == callsFrom(entry.Parts, 1)

IsModel(entry) == entry.Role = "model"

\* a user entry that holds a user input
IsUserText(entry) ==
    /\ entry.Role = "user"
    /\ Len(entry.Parts) = 1
    /\ entry.Parts[1].FunctionResponse = Nil
    /\ entry.Parts[1].FunctionCall = Nil

\* a user entry that holds tool results
IsResults(entry) ==
    /\ entry.Role = "user"
    /\ Len(entry.Parts) >= 1
    /\ \A k \in 1..Len(entry.Parts) : entry.Parts[k].FunctionResponse # Nil

ModelEntries(h) == Cardinality({i \in 1..Len(h) : IsModel(h[i])})

\* this step ends a model invocation without error
StreamEnds == pc = "Streaming" /\ pc' \in {"AwaitingInput", "ExecutingTools"}

\* C8: a model invocation that ends without error appends one model entry
\* to the history, whose parts are the parts of all its fragments in the order
\* of arrival; no other step adds or removes a model entry.
C8_OneModelEntryPerInvocation ==
    [][IF StreamEnds
       THEN history' = Append(history, Content("model", partsFrom(frags, 1)))
       ELSE ModelEntries(history') = ModelEntries(history)]_vars

\* an invocation of three fragments, one of them nil, has ended with one
\* entry of the three parts
C8_ThreePartsMerged ==
    /\ pc = "AwaitingInput"
    /\ frags = <<Response(<<TextPart("a")>>), NilResponse,
                 Response(<<TextPart("b"), TextPart("")>>)>>
    /\ Len(history) = 2
    /\ history[2] = Content("model", <<TextPart("a"), TextPart("b"), TextPart("")>>)

\* the round of the model entry history[i] is done: the next entry holds one
\* result for each of its calls, in the order of the calls
RoundBatched(i) ==
    Let(CallsOf(history[i]), LAMBDA cs :
        /\ i < Len(history)
        /\ IsResults(history[i + 1])
        /\ Len(history[i + 1].Parts) = Len(cs)
        /\ \A k \in 1..Len(cs) :
              history[i + 1].Parts[k].FunctionResponse[1].Name = cs[k].Name
        /\ i + 2 <= Len(history) => IsModel(history[i + 2]))

\* the calls executed so far in the current round are the first calls of cs,
\* each executed once, and the parts built hold their results in that order
ExecutedInOrder(cs, ps) ==
    /\ Len(executed) = Len(ps)
    /\ Len(ps) <= Len(cs)
    /\ \A k \in 1..Len(ps) :
          /\ executed[k].fc = cs[k]
          /\ ps[k] = [Text |-> "", FunctionCall |-> Nil,
                      FunctionResponse |->
                          <<[Name |-> cs[k].Name, Response |-> AsMap(executed[k].result)]>>]

\* the model entry with calls that is last in the history
LastRound == CHOOSE i \in 1..Len(history) :
                 /\ IsModel(history[i]) /\ CallsOf(history[i]) # <<>>
                 /\ \A j \in (i + 1)..Len(history) :
                       ~(IsModel(history[j]) /\ CallsOf(history[j]) # <<>>)

\* C9: in a round with N >= 1 calls all N calls are executed, each once and
\* in the order received, and one user entry with N results is appended, the
\* i-th result carrying the name and the result of the i-th call.
C9_AllCallsExecutedInOrder ==
    /\ \A i \in 1..Len(history) :
          (IsModel(history[i]) /\ CallsOf(history[i]) # <<>>)
              => IF i = Len(history)
                 THEN /\ pc = "ExecutingTools"
                      /\ calls = CallsOf(history[i])
                      /\ Len(parts) < Len(calls)
                      /\ ExecutedInOrder(calls, parts)
                 ELSE RoundBatched(i)
    /\ \A i \in 1..Len(history) :
          IsResults(history[i])
              => (i > 1 /\ IsModel(history[i - 1]) /\ CallsOf(history[i - 1]) # <<>>)
    /\ (pc # "ExecutingTools" /\ \E i \in 1..Len(history) :
                                     IsModel(history[i]) /\ CallsOf(history[i]) # <<>>)
          => (/\ Len(executed) = Len(CallsOf(history[LastRound]))
              /\ ExecutedInOrder(CallsOf(history[LastRound]), history[LastRound + 1].Parts))

\* a round of two calls, a write and then a read of the same file, is done:
\* one entry with two results, the second one the content just written
C9_WriteThenReadBatched ==
    /\ pc = "Streaming"
    /\ Len(history) = 3
    /\ CallsOf(history[2]) = <<WriteA, ReadA>>
    /\ Len(history[3].Parts) = 2
    /\ history[3].Parts[1].FunctionResponse[1].Name = "write_file"
    /\ history[3].Parts[2].FunctionResponse[1] =
           [Name |-> "read_file",
            Response |-> AsMap(NewSuccessResult(<<[content |-> <<"x">>]>>))]

\* the entries from i on are whole exchanges followed by what position q
\* leaves open: "user" nothing, "model" a model entry to come, "results" the
\* results of the round to come
RECURSIVE shapeFrom(_, _, _)
shapeFrom(i, q, final) ==
    IF i > Len(history) THEN q = final
    ELSE CASE q = "user" -> IsUserText(history[i]) /\ shapeFrom(i + 1, "model", final)
           [] q = "model" ->
                 /\ IsModel(history[i])
                 /\ shapeFrom(i + 1, IF CallsOf(history[i]) # <<>> THEN "results" ELSE "user",
                              final)
           [] OTHER ->
                 /\ IsResults(history[i])
                 /\ Len(history[i].Parts) = Len(CallsOf(history[i - 1]))
                 /\ shapeFrom(i + 1, "model", final)

\* the user input that is last in the history
LastInput == CHOOSE i \in 1..Len(history) :
                 IsUserText(history[i]) /\ \A j \in (i + 1)..Len(history) : ~IsUserText(history[j])

\* the rounds of the last exchange
LastRounds == Cardinality({j \in LastInput..Len(history) : IsResults(history[j])})

\* the entries of the last exchange
LastEntries == Len(history) - LastInput + 1

Completed == pc \in {"AwaitingInput", "Done"} /\ history # <<>>

\* C10 as stated: a completed exchange without tool calls has appended two
\* entries, and one with R rounds of tool calls R blocks of four entries.
C10_FourEntriesPerRound ==
    Completed => LastEntries = (IF LastRounds = 0 THEN 2 ELSE 4 * LastRounds)

\* C10, amended: the history of completed exchanges is, per exchange, the
\* user input, then for each round of tool calls the model entry with the
\* calls and one user entry with all its results, then the model entry
\* without calls: 2 entries without tool calls, 2 + 2R with R rounds.
C10_HistoryShape ==
    /\ shapeFrom(1, "user", CASE pc \in {"Start", "AwaitingInput", "Done"} -> "user"
                              [] pc = "ExecutingTools" -> "results"
                              [] OTHER -> "model")
    /\ Completed => LastEntries = 2 + 2 * LastRounds

\* an exchange with two chained rounds is complete: six entries
C10_TwoRoundsSixEntries ==
    /\ pc = "AwaitingInput"
    /\ nturns = 1
    /\ Len(history) = 6
    /\ LastRounds = 2

\* the orchestrator waits for input, or Run has returned
AtRest == pc \in {"Start", "AwaitingInput", "Done", "Failed"}

\* C11: whenever the orchestrator is at rest (awaiting input, stopped after
\* the end of input or after a failure of the stream), the history is empty
\* or ends with a model entry without tool calls.
C11_NoPartialHistory ==
    AtRest => (history = <<>>
                  \/ (IsModel(history[Len(history)]) /\ CallsOf(history[Len(history)]) = <<>>))

\* C12: when the stream of an invocation fails, nothing is appended to the
\* history for it, none of the calls collected is executed, no other
\* invocation follows, and Run returns the error.
C12_StreamFailureAborts ==
    [][/\ (pc' = "Failed")
             => (/\ history' = history
                 /\ ModelEntries(history') = ninv' - 1
                 /\ fs' = fs
                 /\ executed' = executed
                 /\ ninv' = ninv
                 /\ runErr' = "stream error")
       /\ (pc = "Failed") => (pc' = "Failed" /\ ninv' = ninv /\ executed' = executed)]_vars

\* the stream has failed after a fragment with tool calls, in the first
\* invocation of a turn
C12_FailedWithCallsCollected ==
    /\ pc = "Failed"
    /\ allCalls = <<WriteA, ReadA>>
    /\ frags # <<>>
    /\ executed = <<>>
    /\ Len(history) = 1
    /\ runErr = "stream error"

\* the code of the error of the k-th result of history entry i
ErrorCodeAt(i, k) == history[i].Parts[k].FunctionResponse[1].Response["error"].code

\* C13: a failure of a tool is not fatal to the turn: each failed call becomes
\* an ok:false result of the batched user entry, the model is invoked again
\* exactly as after a success, and the loop neither returns an error nor ends.
C13_ToolFailureNotFatal ==
    [][(pc = "ExecutingTools")
          => /\ runErr' = "none"
             /\ Len(executed') = Len(executed) + 1
             /\ Len(parts') = Len(executed')
             /\ parts'[Len(parts')].FunctionResponse[1].Response["ok"]
                    = executed'[Len(executed')].result.OK
             /\ ~executed'[Len(executed')].result.OK
                    => /\ "error" \in DOMAIN parts'[Len(parts')].FunctionResponse[1].Response
                       /\ "data" \notin DOMAIN parts'[Len(parts')].FunctionResponse[1].Response
             /\ IF Len(parts') < Len(calls)
                THEN pc' = "ExecutingTools" /\ history' = history /\ ninv' = ninv
                ELSE /\ pc' = "Streaming"
                     /\ ninv' = ninv + 1
                     /\ history' = Append(history, [Role |-> "user", Parts |-> parts'])
                     /\ allParts' = <<>> /\ allCalls' = <<>>]_vars

\* a round of four calls that all failed (unknown tool, path outside Root,
\* missing argument, read of a directory) is batched and the model invoked again
C13_AllFourFailedAndReinvoked ==
    /\ pc = "Streaming"
    /\ ninv = 2
    /\ runErr = "none"
    /\ Len(history) = 3
    /\ CallsOf(history[2]) = <<RmA, ReadOutside, WriteNoContent, ReadDirectory>>
    /\ Len(history[3].Parts) = 4
    /\ \A k \in 1..4 : history[3].Parts[k].FunctionResponse[1].Response["ok"] = FALSE
    /\ ErrorCodeAt(3, 1) = "invalid_argument"
    /\ ErrorCodeAt(3, 2) = "permission_denied"
    /\ ErrorCodeAt(3, 3) = "invalid_argument"
    /\ ErrorCodeAt(3, 4) = "io_error"

\* C14: every result of the executor has exactly one of data and error: ok
\* with data and without error, or not ok with an error (code, message) and
\* without data; the map sent to the model has the same shape.
C14_ExactlyOneOfDataAndError ==
    (tpc = "returned")
        => IF result.OK
           THEN /\ result.Data # Nil
                /\ result.Error = Nil
                /\ DOMAIN AsMap(result) = {"ok", "data"}
           ELSE /\ result.Error # Nil
                /\ result.Data = Nil
                /\ DOMAIN AsMap(result) = {"ok", "error"}
                /\ DOMAIN AsMap(result)["error"] = {"code", "message", "suggestions"}

\* the arguments a filesystem tool requires, in the order it reads them
Required(fc) == IF fc.Name = "write_file" THEN <<"path", "content">> ELSE <<"path">>

\* the argument is missing or is not a string
BadArg(fc, key) == key \notin DOMAIN fc.Args \/ fc.Args[key].type # "string"

\* the first required argument of fc that is missing or is not a string
FirstBad(fc) == Required(fc)[CHOOSE i \in 1..Len(Required(fc)) :
                                /\ BadArg(fc, Required(fc)[i])
                                /\ \A j \in 1..(i - 1) : ~BadArg(fc, Required(fc)[j])]

FileTools == {"read_file", "write_file", "list_files"}

\* C15: for read_file, write_file and list_files, when a required argument
\* is missing or is not a string the result is invalid_argument naming the
\* key, Resolve is not consulted and the filesystem is left as it was; so
\* write_file with a valid path and a missing or non-string content writes
\* nothing.
C15_ValidationShortCircuits ==
    [][(/\ tpc' = "returned"
        /\ call'.fc.Name \in FileTools
        /\ \E i \in 1..Len(Required(call'.fc)) : BadArg(call'.fc, Required(call'.fc)[i]))
          => /\ result'.OK = FALSE
             /\ result'.Data = Nil
             /\ result'.Error[1].Code = "invalid_argument"
             /\ result'.Error[1].Message.fmt
                    = (IF FirstBad(call'.fc) \in DOMAIN call'.fc.Args
                       THEN "argument %s must be a string" ELSE "missing argument: %s")
             /\ result'.Error[1].Message.args = <<FirstBad(call'.fc)>>
             /\ result'.Error[1].Suggestions = Nil
             /\ pending' = Nil
             /\ fs' = fs]_vars

\* write_file was called with the path of an existing file and a content
\* that is no string: the file is as it was
C15_WriteWithNumberContent ==
    /\ tpc = "returned"
    /\ call.fc = [Name |-> "write_file",
                  Args |-> [path |-> StringValue(<<"a">>), content |-> NumberValue]]
    /\ result.Error # Nil
    /\ result.Error[1].Code = "invalid_argument"
    /\ result.Error[1].Message.args = <<"content">>
    /\ pending = Nil
    /\ Root = W
    /\ fs[WA] = FileNode(<<"a">>)

\* the access kind a filesystem tool asks Resolve for
AccessOf(name) ==
    CASE name = "read_file" -> AccessReadFile
      [] name = "write_file" -> AccessWriteFile
      [] OTHER -> AccessListDir

\* the call just returned is one of a filesystem tool with valid arguments
ValidFileCall(c) ==
    /\ c.fc.Name \in FileTools
    /\ \A i \in 1..Len(Required(c.fc)) : ~BadArg(c.fc, Required(c.fc)[i])

\* C16: when Resolve rejects the path of read_file, write_file or list_files,
\* the result is not ok, its error has exactly the code, the message and the
\* suggestions of the rejection, so has the map sent to the model, and the
\* filesystem is left as it was.
C16_RejectionSurfacedUnchanged ==
    [][(tpc' = "returned" /\ ValidFileCall(call'))
          => \A r \in {Resolve(fs, Root, call'.fc.Args.path.val, AccessOf(call'.fc.Name))} :
                ~r.ok
                    => /\ pending' = <<r>>
                       /\ result'.OK = FALSE
                       /\ result'.Data = Nil
                       /\ result'.Error # Nil
                       /\ result'.Error[1].Code = r.err.Code
                       /\ result'.Error[1].Message = r.err.Message
                       /\ result'.Error[1].Suggestions = r.err.Suggestions
                       /\ AsMap(result') = [ok |-> FALSE,
                                            error |-> [code |-> r.err.Code,
                                                       message |-> r.err.Message,
                                                       suggestions |-> r.err.Suggestions]]
                       /\ fs' = fs]_vars

\* read_file of a dangling link was rejected with not_found, and the result
\* carries the suggestion of the rejection
C16_NotFoundWithSuggestionSurfaced ==
    /\ tpc = "returned"
    /\ call.fc = [Name |-> "read_file", Args |-> [path |-> StringValue(<<"l">>)]]
    /\ Root = W
    /\ WL \in DOMAIN fs
    /\ fs[WL] = LinkNode(EW)
    /\ pending # Nil
    /\ ~pending[1].ok
    /\ result.Error # Nil
    /\ result.Error[1].Code = "not_found"
    /\ result.Error[1].Suggestions = <<Sprintf("Did you mean '%s'?", <<<<"l">>>>)>>

\* the names of the entries of f beneath root
NamesBeneath(f, root) == {Base(q) : q \in {p \in DOMAIN f : Within(root, p) /\ p # root}}

\* C17: the suggestions of a not_found rejection are taken from a directory
\* that is Root or beneath it: every name suggested is the name of an entry
\* beneath Root.
C17_SuggestionsFromWithinRoot ==
    (Resolved /\ ~pending[1].ok /\ pending[1].err.Code = "not_found")
        => \A k \in 1..Len(pending[1].err.Suggestions) :
              \E n \in NamesBeneath(fs, Root) :
                  pending[1].err.Suggestions[k] = Sprintf("Did you mean '%s'?", <<n>>)

\* the hint of a permission_denied rejection
FixedHint ==
    [fmt |-> "Use a relative path under the project root (e.g., './subdir/file.txt')",
     args |-> <<>>]

\* C18: a permission_denied rejection carries exactly one suggestion, the
\* fixed hint to use a relative path under the root, whatever the path asked
\* for and the filesystem are; so does the result of the tool.
C18_PermissionDeniedFixedHint ==
    /\ (Resolved /\ ~pending[1].ok /\ pending[1].err.Code = "permission_denied")
          => pending[1].err.Suggestions = <<FixedHint>>
    /\ (tpc = "returned" /\ result.Error # Nil /\ result.Error[1].Code = "permission_denied")
          => /\ result.Error[1].Suggestions = <<FixedHint>>
             /\ Resolved

\* list_files of the absolute path of an existing directory outside Root
\* was denied with the hint as its only suggestion
C18_OutsideDirectoryDenied ==
    /\ tpc = "returned"
    /\ call.fc = [Name |-> "list_files", Args |-> [path |-> StringValue(E)]]
    /\ Root = W
    /\ result.Error # Nil
    /\ result.Error[1].Code = "permission_denied"
    /\ result.Error[1].Suggestions = <<FixedHint>>

----------------------------------------------------------------------------
(* Suggestions: calls for missing names in directories with several entries. *)

WN == <<"/", "w", "/", "n">>
WE == <<"/", "w", "/", "e">>

\* the names the files of Root are chosen from
SuggestNames ==
    {<<"a">>, <<"A", "l">>, <<"a", "l">>, <<"a", "l", "a">>, <<"l", "a">>, <<"w", "a", "l">>}

\* the directory dir with a file for every name of names, all else as in f
WithFiles(f, dir, names) ==
    [q \in DOMAIN f \cup {Join(dir, n) : n \in names} |->
        IF q \in DOMAIN f THEN f[q] ELSE FileNode(<<"x">>)]

Bare == [p \in {Slash, W} |-> DirNode]

\* Root without directories, with one directory, and with two directories
\* that have an entry of the same name
SubdirVariants ==
    {Bare,
     WithFiles(With(Bare, WN, DirNode), WN, {<<"a", "l">>}),
     WithFiles(WithFiles(With(With(Bare, WN, DirNode), WE, DirNode),
                         WN, {<<"a", "l">>, <<"l", "a">>}),
               WE, {<<"a", "l">>})}

SuggestFS == {WithFiles(f, W, names) : f \in SubdirVariants, names \in SUBSET SuggestNames}

\* the paths asked for: names in lower and upper case, names in a directory,
\* and paths with the character "*"
SuggestPaths ==
    {<<"a">>, <<"A">>, <<"l">>, <<"L">>, <<"a", "l">>, <<"A", "L">>, <<"x">>, <<"*">>,
     <<"n", "/", "a">>, <<"n", "/", "L">>, <<"*", "/", "a">>, <<"*", "/", "l">>,
     <<"*", "/", "x">>}

SuggestCalls ==
    {[Name |-> n, Args |-> [path |-> StringValue(p)]] :
        n \in {"read_file", "list_files"}, p \in SuggestPaths}
        \cup {[Name |-> "write_file",
               Args |-> [path |-> StringValue(p \o <<"/", "x">>),
                         content |-> StringValue(<<"x">>)]] : p \in SuggestPaths}

InitSuggest ==
    /\ fs \in SuggestFS
    /\ Root = NewPathSandbox(fs, Dot).Root
    /\ ToolsIdle
    /\ AgentInit
    /\ DebugOff

CallForMissing == \E fc \in SuggestCalls : Execute(fc, {"none"})

SpecSuggest == InitSuggest /\ [][CallForMissing]_vars

\* what Resolve found missing: the path asked for, for write_file its parent
Missing == IF call.fc.Name = "write_file" THEN Dir(candidateAbs) ELSE candidateAbs

\* the names of the entries of the directory dir of f
EntriesOf(f, dir) ==
    Let(EvalSymlinks(f, dir), LAMBDA d :
        IF d.ok /\ f[d.path].kind = "dir" THEN Children(f, d.path) ELSE {})

PrefixOf(name, base) == HasPrefix(ToLower(name), ToLower(base))
SubstringOf(name, base) == Contains(ToLower(name), ToLower(base))

\* the suggestions sugg are a ranking of the names of entries for the missing
\* name base
RankedFrom(sugg, entries, base) ==
    /\ Len(sugg) <= 3
    /\ \A i \in 1..Len(sugg) :
          /\ sugg[i].fmt = "Did you mean '%s'?"
          /\ Len(sugg[i].args) = 1
          /\ sugg[i].args[1] \in entries
          /\ SubstringOf(sugg[i].args[1], base)
    /\ \A i, j \in 1..Len(sugg) : i # j => sugg[i] # sugg[j]
    /\ \A i, j \in 1..Len(sugg) :
          (i < j /\ PrefixOf(sugg[j].args[1], base)) => PrefixOf(sugg[i].args[1], base)
    /\ \A n \in entries :
          PrefixOf(n, base)
              => \/ \E i \in 1..Len(sugg) : sugg[i].args[1] = n
                 \/ /\ Len(sugg) = 3
                    /\ \A i \in 1..3 : PrefixOf(sugg[i].args[1], base)
    /\ \A n \in entries :
          SubstringOf(n, base) => (Len(sugg) = 3 \/ \E i \in 1..Len(sugg) : sugg[i].args[1] = n)

\* C19: the suggestions of a not_found rejection are taken from the entries
\* of the parent directory of the missing target: the entries that have the
\* missing name as prefix, case ignored, come first, then those that only
\* contain it; no entry twice, 3 at most, each as a "Did you mean" hint, and
\* none when no entry matches.
C19_SuggestionsRanked ==
    (Resolved /\ ~pending[1].ok /\ pending[1].err.Code = "not_found")
        => RankedFrom(pending[1].err.Suggestions, EntriesOf(fs, Dir(Missing)), Base(Missing))

----------------------------------------------------------------------------
(* Resolve called again with the same arguments. *)

\* Resolve with a missing parent directory created for AccessWriteFile
afterResolveMkdir(f, root, path, access) ==
    IF access = AccessWriteFile /\ TrimSpace(path) # <<>>
          /\ ~EvalSymlinks(f, Dir(candidateOf(root, path))).ok
          /\ Dir(candidateOf(root, path)) \notin DOMAIN f
    THEN With(f, Dir(candidateOf(root, path)), DirNode)
    ELSE f

\* PathSandbox.Resolve: the filesystem after the call; EvalSymlinks and Glob
\* only read, and nothing is created, written or removed
afterResolve(f, root, path, access) == f

\* the arguments of the calls: the relative paths asked for and the absolute
\* ones of up to two segments, with every access kind
ResolveArgs ==
    [userPath : {p \in UserPaths : ~IsAbs(p) \/ Len(Split(p)) <= 3},
     access : {AccessReadFile, AccessWriteFile, AccessListDir}]

\* a call of Resolve on its own: the first one with any arguments, a later one
\* with the arguments of the first; pending holds the outcomes in order
ResolveCall ==
    /\ Len(pending) < MaxResolves
    /\ \E a \in ResolveArgs :
          /\ tpc = "idle" \/ (tpc = "resolved" /\ call.fc.Args = a)
          /\ call' = [fc |-> [Name |-> "Resolve", Args |-> a], env |-> "none"]
          /\ pending' = Append(pending, Resolve(fs, Root, a.userPath, a.access))
          /\ fs' = afterResolve(fs, Root, a.userPath, a.access)
    /\ tpc' = "resolved"
    /\ UNCHANGED <<Root, result, agvars, dbgvars>>

SpecResolve == InitTools /\ [][ResolveCall]_vars

IsPrefix(h, g) == Len(h) <= Len(g) /\ SubSeq(g, 1, Len(h)) = h

\* C21: the history changes by append only: in every step of the
\* orchestrator the history before is a prefix of the history after, and a
\* step adds at most one entry.
C21_HistoryAppendOnly ==
    [][IsPrefix(history, history') /\ Len(history') <= Len(history) + 1]_vars

\* a second turn has been answered after a first turn with a tool round: the
\* six entries are all there
C21_TwoTurnsKept ==
    /\ pc = "AwaitingInput"
    /\ nturns = 2
    /\ Len(history) = 6
    /\ IsUserText(history[1])
    /\ IsResults(history[3])
    /\ IsUserText(history[5])

\* C22: when the input ends while the orchestrator awaits input, Run returns
\* without error: no model invocation and no tool execution is started, the
\* history and the filesystem are left as they are, and nothing follows.
C22_EndOfInputTerminatesCleanly ==
    [][/\ (pc = "AwaitingInput" /\ pc' = "Done")
             => /\ history' = history
                /\ ninv' = ninv
                /\ executed' = executed
                /\ calls' = calls
                /\ fs' = fs
                /\ runErr' = "none"
                /\ display' = display
       /\ (pc = "Done") => (pc' = "Done" /\ history' = history /\ ninv' = ninv)
       /\ (pc' = "Done") => pc \in {"AwaitingInput", "Done"}]_vars

\* the input has ended after a turn with a tool round
C22_DoneAfterToolTurn ==
    /\ pc = "Done"
    /\ runErr = "none"
    /\ nturns = 1
    /\ Len(history) = 4
    /\ ninv = 2
    /\ Len(executed) = 2

----------------------------------------------------------------------------
(* The orchestrator started with or without --debug. *)

InitDebug ==
    /\ fs = AgentFS
    /\ Root = NewPathSandbox(AgentFS, Dot).Root
    /\ ToolsIdle
    /\ AgentInit
    /\ debugMode \in BOOLEAN
    /\ diag = mainDebug(debugMode, Root)

SpecDebug == InitDebug /\ [][Next]_vars

\* the texts of the parts of a response, in order, the empty ones left out
TextsOf(resp) ==
    IF ~Carries(resp) THEN <<>>
    ELSE SelectSeq([i \in 1..Len(resp[1].content[1].Parts) |-> resp[1].content[1].Parts[i].Text],
                   LAMBDA t : t # "")

\* what the orchestrator prints between the texts and the markers
Punctuation == {<<>>, <<Newline>>, <<Prompt>>, <<Newline, Prompt>>, <<Banner, Prompt>>}

\* C23: the display receives the text of each fragment when the fragment
\* arrives, in arrival order, and for a tool call only the marker with the
\* name of the tool; the arguments and the result of a call are written to
\* the diagnostic stream only, and only in debug mode.
C23_DisplayTextAndMarkersOnly ==
    [][/\ (pc = "Streaming" /\ nfrags' = nfrags + 1 /\ pc' = "Streaming")
             => display' = display
                              \o (IF firstOutput /\ TextsOf(frags'[Len(frags')]) # <<>>
                                  THEN <<GeminiPrefix>> ELSE <<>>)
                              \o TextsOf(frags'[Len(frags')])
       /\ (pc = "ExecutingTools")
             => /\ display' = display \o <<Arrow, executed'[Len(executed')].fc.Name, Newline>>
                /\ diag' = diag \o
                      (IF debugMode
                       THEN <<[fmt |-> "[DEBUG] Tool call: %s with args: %v\n",
                               args |-> <<executed'[Len(executed')].fc.Name,
                                          executed'[Len(executed')].fc.Args>>],
                              [fmt |-> "[DEBUG] Tool response: %v\n",
                               args |-> <<AsMap(executed'[Len(executed')].result)>>]>>
                       ELSE <<>>)
       /\ (pc # "ExecutingTools") => diag' = diag
       /\ (pc' = "Panicked") => display' = display
       /\ (pc # "ExecutingTools" /\ nfrags' = nfrags)
             => \E d \in Punctuation : display' = display \o d]_vars

\* in debug mode a round of a write and a read is done: the display has the
\* text and the two markers, the diagnostic stream the calls and the results
C23_DebugRoundShown ==
    /\ debugMode
    /\ pc = "Streaming"
    /\ Len(history) = 3
    /\ display = <<Banner, Prompt, GeminiPrefix, "c", Newline,
                   Arrow, "write_file", Newline, Arrow, "read_file", Newline>>
    /\ Len(diag) = 5
    /\ diag[2].args = <<"write_file", WriteA.Args>>
    /\ diag[5].args = <<AsMap(NewSuccessResult(<<[content |-> <<"x">>]>>))>>

\* the texts the responses of the model carry
ModelTexts == {"a", "b", "c"}

\* no prompt is printed from position i to position j of the display: the
\* two positions belong to the same turn
SameTurn(i, j) == \A k \in i..j : display[k] # Prompt

\* C24: the prefix is printed exactly once in a turn that emits text, a turn
\* being what lies between one user input and the next prompt, whatever the
\* number of fragments, invocations and tool rounds: no two prefixes in a
\* turn, and a prefix before every text of the turn.
C24_OnePrefixPerTurn ==
    /\ \A i, j \in 1..Len(display) :
          (i < j /\ display[i] = GeminiPrefix /\ display[j] = GeminiPrefix) => ~SameTurn(i, j)
    /\ \A j \in 1..Len(display) :
          display[j] \in ModelTexts
              => \E i \in 1..(j - 1) : display[i] = GeminiPrefix /\ SameTurn(i, j)

\* C25: read_file and list_files leave the filesystem as it was, whatever
\* their arguments and their outcome; of the tools only write_file changes
\* it, and only in a call that returns ok or an io_error.
C25_ReadAndListChangeNothing ==
    [][(tpc' = "returned")
          => /\ (call'.fc.Name \in {"read_file", "list_files"}) => fs' = fs
             /\ (fs' # fs)
                   => /\ call'.fc.Name = "write_file"
                      /\ result'.OK \/ result'.Error[1].Code = "io_error"]_vars

\* list_files of a path that is not there was rejected, with an entry of the
\* same name in upper case suggested, and nothing was created
C25_ListOfMissingCreatesNothing ==
    /\ tpc = "returned"
    /\ call.fc = [Name |-> "list_files",
                  Args |-> [path |-> StringValue(<<".", ".", "/", "E">>)]]
    /\ result.Error # Nil
    /\ result.Error[1].Code = "not_found"
    /\ fs = Skeleton

\* the path is empty or has white space only
Blank(path) == \A i \in 1..Len(path) : path[i] = " "

\* C26: a path that is empty or white space only is rejected by Resolve with
\* invalid_argument for every access kind, whatever the filesystem holds; so
\* read_file, write_file and list_files with such a path return ok=false with
\* invalid_argument, and the filesystem is left as it was.
C26_BlankPathRejected ==
    [][(tpc' = "returned" /\ ValidFileCall(call') /\ Blank(call'.fc.Args.path.val))
          => /\ pending' # Nil
             /\ ~pending'[1].ok
             /\ pending'[1].err.Code = "invalid_argument"
             /\ pending'[1].err.Message = [fmt |-> "path cannot be empty", args |-> <<>>]
             /\ result'.OK = FALSE
             /\ result'.Data = Nil
             /\ result'.Error[1].Code = "invalid_argument"
             /\ result'.Error[1].Message = [fmt |-> "path cannot be empty", args |-> <<>>]
             /\ fs' = fs]_vars

\* write_file with a path of two spaces and a content was rejected
C26_WriteToSpacesRejected ==
    /\ tpc = "returned"
    /\ call.fc = [Name |-> "write_file",
                  Args |-> [path |-> StringValue(<<" ", " ">>),
                            content |-> StringValue(<<"x">>)]]
    /\ result.Error # Nil
    /\ result.Error[1].Code = "invalid_argument"
    /\ DOMAIN fs = DOMAIN Skeleton

\* a tool call is executed in this step
ToolRuns == executed' # executed /\ executed' # <<>>

\* a model invocation is issued in this step
Invokes == ninv' = ninv + 1

\* C27: a tool call runs only when the stream of the invocation that asked
\* for it has ended and the merged model entry is the last of the history;
\* a model invocation is issued only from the prompt or after every call of
\* the round has run and the one entry with all the results is appended, and
\* it is given the whole history; no invocation is issued while another is
\* in flight, and no tool runs in a step that consumes a stream.
C27_PhaseOrdering ==
    [][/\ ToolRuns
          => /\ pc = "ExecutingTools"
             /\ calls = allCalls
             /\ history[Len(history)] = modelContent(allParts)
             /\ executed' = Append(executed, [fc |-> calls[Len(executed) + 1],
                                              result |-> executed'[Len(executed')].result])
       /\ Invokes
          => /\ pc \in {"AwaitingInput", "ExecutingTools"}
             /\ contents' = history'
             /\ pc = "ExecutingTools"
                   => /\ Len(executed') = Len(calls)
                      /\ Len(parts') = Len(calls)
                      /\ history' = Append(history, toolResponseContent(parts'))
       /\ (pc = "Streaming")
          => /\ ~Invokes
             /\ ~ToolRuns
             /\ fs' = fs
             /\ contents' = contents
       /\ (pc = "ExecutingTools" /\ Len(executed') < Len(calls))
          => ~Invokes /\ history' = history]_vars

\* the second invocation of a turn is in flight, after a round of four calls,
\* and was given the user entry, the model entry and the entry of results
C27_SecondInvocationAfterRound ==
    /\ pc = "Streaming"
    /\ ninv = 2
    /\ nturns = 1
    /\ Len(executed) = 4
    /\ Len(history) = 3
    /\ contents = history

-----------------------------------------------------------------------------
(* The agent with streams that end and tools that return: the range over
   the stream in streamModelResponse ends when the stream does, and
   executeToolCalls is a loop over a finite slice of calls to synchronous
   functions. *)

FairSpec ==
    /\ Init
    /\ [][Next]_vars
    /\ WF_vars(EndTurn \/ BeginTools)
    /\ WF_vars(ExecuteToolCall)

\* a turn is under way
InTurn == pc \in {"Streaming", "ExecutingTools"}

\* C28: control returns to the prompt exactly at the end of a stream that
\* collected no call, and that step appends the model entry only and runs no
\* tool; a stream that collected calls starts the tool round, and the end of a
\* tool round always invokes the model again, whatever the number of rounds
\* before.  With streams that end, every turn under way reaches the prompt
\* again unless its stream fails.
C28_TurnCompletesOnNoCalls ==
    /\ [][/\ (pc' = "AwaitingInput" /\ pc # "AwaitingInput" /\ pc # "Start")
             => /\ pc = "Streaming"
                /\ allCalls = <<>>
                /\ history' = Append(history, modelContent(allParts))
                /\ executed' = executed
                /\ fs' = fs
                /\ ninv' = ninv
          /\ (pc = "Streaming" /\ pc' \notin {"Streaming", "Failed", "Panicked"})
             => /\ allCalls = <<>> => pc' = "AwaitingInput"
                /\ allCalls # <<>> => pc' = "ExecutingTools" /\ calls' = allCalls
          /\ (pc = "ExecutingTools" /\ pc' # "ExecutingTools")
             => /\ pc' = "Streaming"
                /\ ninv' = ninv + 1
                /\ Len(executed') = Len(calls)]_vars
    /\ InTurn ~> (pc \in {"AwaitingInput", "Failed", "Panicked"})

\* a turn is over after as many chained invocations as the model allows, each
\* but the last followed by a tool round
C28_TurnOverAfterChainedRounds ==
    /\ pc = "AwaitingInput"
    /\ nturns = 1
    /\ ninv = MaxInvocations
    /\ Len(history) = 2 * MaxInvocations

\* C29: every entry of the history has the role user or model and carries one
\* part or more, the model entry appended after a stream that delivered no
\* part included.
C29_EveryEntryHasAPart ==
    \A i \in 1..Len(history) :
       /\ history[i].Role \in {"user", "model"}
       /\ Len(history[i].Parts) >= 1

\* a write_file call with a path that is not blank and a content
WriteRequest(c) ==
    /\ c.fc.Name = "write_file"
    /\ ValidFileCall(c)
    /\ ~Blank(c.fc.Args.path.val)

\* the candidate of the call made does not resolve: the target does not exist
TargetMissing == ~EvalSymlinks(fs, candidateOf(Root, call'.fc.Args.path.val)).ok

\* the parent of the candidate of the call made, resolved
ParentReal == EvalSymlinks(fs, Dir(candidateOf(Root, call'.fc.Args.path.val)))

\* the parent of the candidate is a directory that exists
ParentIsDirectory == ParentReal.ok /\ fs[ParentReal.path].kind = "dir"

\* C30: for a write whose target does not exist, a parent directory that
\* exists, resolves and lies within Root makes Resolve return the resolved
\* parent joined with the last element of the candidate; a parent directory
\* that does not exist or does not resolve makes Resolve return not_found, and
\* write_file creates nothing.
C30_WriteTargetMissing ==
    [][(tpc' = "returned" /\ WriteRequest(call') /\ TargetMissing)
          => /\ (ParentIsDirectory /\ Within(Root, ParentReal.path))
                => /\ pending'[1].ok
                   /\ pending'[1].path
                         = Join(ParentReal.path,
                                Base(candidateOf(Root, call'.fc.Args.path.val)))
             /\ ~ParentIsDirectory
                => /\ ~pending'[1].ok
                   /\ pending'[1].err.Code = "not_found"
                   /\ result'.Error[1].Code = "not_found"
                   /\ fs' = fs]_vars

\* the response carries no content: it is nil, has no candidate, or has a
\* first candidate whose Content is nil
Contentless(resp) == resp = Nil \/ resp[1].candidates = 0 \/ resp[1].content = Nil

\* a fragment arrives in this step
Arrives == pc = "Streaming" /\ Len(frags') = Len(frags) + 1

\* C34: a fragment that carries no content is skipped: it adds no part to the
\* merged entry and no call to the round, prints nothing, and the stream goes
\* on, with no failure of the turn and no crash.
C34_ContentlessFragmentSkipped ==
    [][(Arrives /\ Contentless(frags'[Len(frags')]))
          => /\ allParts' = allParts
             /\ allCalls' = allCalls
             /\ display' = display
             /\ firstOutput' = firstOutput
             /\ history' = history
             /\ runErr' = runErr
             /\ pc' = "Streaming"]_vars

\* C32: in every state the roles of the history alternate and start with
\* user: the first, third, ... entries are user entries (inputs and batches of
\* results), the second, fourth, ... are model entries, whatever the mix of
\* plain turns, tool rounds, chained rounds and aborted turns.
C32_RolesAlternate ==
    \A i \in 1..Len(history) :
       history[i].Role = IF i % 2 = 1 THEN "user" ELSE "model"

\* Run has failed in the second invocation of a turn, after a tool round: the
\* history ends with the entry of the results
C32_AbortedAfterToolRound ==
    /\ pc = "Failed"
    /\ ninv = 2
    /\ Len(history) = 3
    /\ history[3].Role = "user"
    /\ history[3].Parts[1].FunctionResponse # Nil

\* the filesystems g and f hold the same nodes at and beneath root
SameInside(g, f, root) ==
    \A p \in DOMAIN g \cup DOMAIN f :
       Within(root, p) => p \in DOMAIN g /\ p \in DOMAIN f /\ g[p] = f[p]

\* C33: the result of read_file, write_file and list_files depends only on
\* what the filesystem holds within Root: on every filesystem that agrees with
\* the present one at and beneath Root, the call made returns the same result
\* (ok, data, error code, message and suggestions).
C33_ResultDependsOnInsideOnly ==
    [][(tpc' = "returned" /\ call'.fc.Name \in FileTools)
          => \A g \in InitFS :
                SameInside(g, fs, Root)
                   => executeTool(g, Root, call'.fc, call'.env).result = result']_vars

-----------------------------------------------------------------------------
(* A filesystem tool as the two steps it is: Resolve returns a path, and the
   I/O call opens that path afterwards.  Nothing is locked in between, so
   another process can change the filesystem between the two. *)

\* the requests raced: read_file, write_file and list_files with a relative
\* path of up to two segments
RacePaths == {p \in UserPaths : ~IsAbs(p) /\ Len(Split(p)) <= 2}

RaceCalls ==
    {[Name |-> n, Args |-> [path |-> StringValue(p)]] :
        n \in {"read_file", "list_files"}, p \in RacePaths}
      \cup {[Name |-> "write_file",
             Args |-> [path |-> StringValue(p), content |-> StringValue(c)]] :
               p \in RacePaths, c \in Contents}

\* f after another process has put a symbolic link to t in the place of q:
\* what was at q and beneath it is gone from there
Replaced(f, q, t) ==
    [p \in {x \in DOMAIN f : ~HasPrefix(x, q \o Slash)} \cup {q} |->
        IF p = q THEN LinkNode(t) ELSE f[p]]

\* readFile 112-124, writeFile 137-154, listFiles 167-179: the arguments are
\* read and Resolve is called; a rejection is returned at once
ResolveStep ==
    /\ tpc = "idle"
    /\ \E fc \in RaceCalls :
          \E o \in {executeTool(fs, Root, fc, "none")} :
             /\ call' = [fc |-> fc, env |-> "none"]
             /\ pending' = o.resolved
             /\ IF o.resolved # Nil /\ o.resolved[1].ok
                THEN tpc' = "resolved" /\ result' = NoResult
                ELSE tpc' = "returned" /\ result' = o.result
    /\ UNCHANGED <<fs, Root, agvars, dbgvars>>

\* between the two steps another process replaces a component of the resolved
\* path, beneath Root, by a symbolic link
ConcurrentWriter ==
    /\ tpc = "resolved"
    /\ call.env = "none"
    /\ \E k \in 1..Len(Elems(pending[1].path)), t \in LinkTargets :
          \E q \in {Upto(pending[1].path, k)} :
             /\ Within(Root, q)
             /\ q # Root
             /\ fs' = Replaced(fs, q, t)
    /\ call' = [call EXCEPT !.env = "raced"]
    /\ UNCHANGED <<Root, tpc, pending, result, agvars, dbgvars>>

\* readFile 126-133, writeFile 156-163, listFiles 181-200: the I/O on the
\* path Resolve returned, on the filesystem as it is now
IOStep ==
    /\ tpc = "resolved"
    /\ \E o \in {CASE call.fc.Name = "read_file"
                      -> [result |-> readFileIO(fs, pending[1].path, "none"), fs |-> fs]
                   [] call.fc.Name = "list_files"
                      -> [result |-> listFilesIO(fs, pending[1].path, "none"), fs |-> fs]
                   [] OTHER
                      -> writeFileIO(fs, pending[1].path, call.fc.Args.path.val,
                                     call.fc.Args.content.val, "none")} :
          /\ result' = o.result
          /\ fs' = o.fs
    /\ tpc' = "returned"
    /\ UNCHANGED <<Root, call, pending, agvars, dbgvars>>

SpecRace == InitTools /\ [][ResolveStep \/ ConcurrentWriter \/ IOStep]_vars

\* the I/O of the call is performed in this step
DoesIO == tpc = "resolved" /\ tpc' = "returned"

\* C31: Resolve and the I/O of a tool are two steps; when no other process
\* changes the filesystem between them, the location the I/O opens (every
\* symbolic link followed) lies within Root, so that a location outside Root
\* is touched only after such a change.
C31_OutsideOnlyByRace ==
    [][(DoesIO /\ call.env = "none")
          => /\ LocatedInside(fs, Root, pending[1].path)
             /\ \A p \in DOMAIN fs \cup DOMAIN fs' :
                   ~Within(Root, p) => p \in DOMAIN fs /\ p \in DOMAIN fs' /\ fs'[p] = fs[p]]_vars

\* after another process put a link in the place of the resolved path,
\* read_file returned the content of a file outside Root
C31_RaceReadsOutside ==
    /\ tpc = "returned"
    /\ call.env = "raced"
    /\ call.fc.Name = "read_file"
    /\ result.OK
    /\ result.Data[1].content = <<"s">>

====
